---- MODULE Spec2Model ----
(***************************************************************************)
(* Call Companion backend (src/server): the AI chat gateway                *)
(* (routes/ai.py), the credential and session manager (auth.py,            *)
(* routes/auth.py), the users table with its case-insensitive unique       *)
(* e-mail index and its reconciliation at startup (database.py, main.py),  *)
(* the call-record routes (routes/calls.py), and the transcription and     *)
(* summary pipeline of src/backend/main.py.                                *)
(*                                                                         *)
(* Python strings that the code trims or lower-cases are sequences of      *)
(* one-character strings, so that strip() and lower() are computed.        *)
(* Texts of which only a prefix is taken (error bodies) are records        *)
(* [id, len]: the text named id, cut to its first len characters.          *)
(***************************************************************************)
EXTENDS Integers, Sequences, FiniteSets, TLC

VARIABLES
    \* ---- process configuration (config.py, environment)
    gemini_api_key,     \* settings.gemini_api_key
    GEMINI_MODEL,       \* os.getenv("GEMINI_MODEL")
    \* ---- routes/ai.py: module state
    AI_ERRORS,          \* _AI_ERRORS = deque(maxlen=50)
    AI_EVENTS,          \* _AI_EVENTS = deque(maxlen=50)
    nErrors,            \* ghost: number of _record_error calls so far
    nEvents,            \* ghost: number of _record_event calls so far
    \* ---- routes/ai.py: one chat_with_gemini call
    chat_pc,            \* "idle" | "loop" | "done"
    apiKey,             \* payload.apiKey
    key_sequence,       \* [(label, key), ...]
    model_candidates,   \* the filtered model list
    pos,                \* loop indices [k, v, m] of the next request
    resp,               \* the response of the latest request
    last_error_text,
    attempts,           \* ghost: the requests issued, in order, each with the
                        \* loop indices it was issued at
    http_status,        \* status of the answer to the caller
    reply,              \* ChatResponse.reply
    \* ---- the users table and the requests to routes/auth.py in flight
    users,              \* the rows of public.users, in insertion order
    initial_users,      \* ghost: the rows the server started with
    pc,                 \* per handler: "idle" | "<op>_commit" | "done"
    req,                \* per handler: the request body
    loc,                \* per handler: its local variables
    out,                \* per handler: the answer
    \* ---- auth.py: time and one session token
    now,                \* the clock, in seconds
    token,              \* a token presented to verify_token
    verified,           \* what verify_token returned for it
    \* ---- database.py, main.py: the schema of public.users and the startup
    schema,             \* the table, its columns, constraints and index
    boot_pc,            \* lifespan: "down" | "reconcile" | "create" | "serving"
    db_connected,       \* main.db_connected
    conn_test,          \* ghost: "none" | "skipped" | "failed" | "passed"
    last_run,           \* ghost: the latest ensure_users_table call
    boot_log,           \* ghost: the sites whose exception this startup logged
    boots,              \* ghost: number of startups so far
    \* ---- routes/calls.py: the call_records table and the latest answer
    call_records,       \* the rows of call_records, in insertion order
    call_seq,           \* ghost: number of rows ever inserted
    call_out,           \* the latest request and its answer
    \* ---- src/backend/main.py: its tables and the requests in flight
    calls,              \* the rows of calls
    transcripts,        \* the rows of transcripts
    ai_summaries,       \* the rows of ai_summaries
    customers,          \* the rows of customers
    job,                \* per handler: position and local variables
    job_out,            \* per handler: the answer
    \* ---- routes/ai.py: chat_with_gemini calls running concurrently
    chats,              \* per handler: position, key_sequence, loop indices
    conc_requests,      \* ghost: provider requests answered so far
    \* ---- auth.py, routes/auth.py: a client's session
    session,            \* the latest protected request and its answer
    since               \* ghost: what happened after the bearer token was issued

chatVars == <<chat_pc, apiKey, key_sequence, model_candidates, pos, resp,
              last_error_text, attempts, http_status, reply>>
diagVars == <<AI_ERRORS, AI_EVENTS, nErrors, nEvents>>
confVars == <<gemini_api_key, GEMINI_MODEL>>
authVars == <<users, initial_users, pc, req, loc, out>>
tokVars == <<now, token, verified>>
bootVars ==
    <<schema, boot_pc, db_connected, conn_test, last_run, boot_log, boots>>
callVars == <<call_records, call_seq, call_out>>
pipeVars == <<calls, transcripts, ai_summaries, customers, job, job_out>>
concVars == <<chats, conc_requests>>
sessVars == <<session, since>>
extVars == <<bootVars, callVars, pipeVars, concVars, sessVars>>
vars == <<confVars, diagVars, chatVars, authVars, tokVars, extVars>>

-----------------------------------------------------------------------------
(* Bounds *)

\* how many times the server is started
MaxBoots == 2
\* how many rows the users table has at most when sessions are followed
MaxSessUsers == 3
\* how many call records are uploaded
MaxUploads == 2
\* how many calls record_call stores
MaxPipeCalls == 1
\* how many record_call requests two server processes take between them
MaxCustCalls == 2
\* how many transcripts, and how many summaries, are stored
MaxDerived == 2
\* how many provider requests the concurrent chat calls get answered
MaxConcRequests == 6
\* how many of the fixed fallback models the model list keeps
MaxFallbacks == 1
\* how many _record_error / _record_event calls the diagnostics runs make
MaxDiagCalls == 52
\* tokens are issued in the first MaxIssueTime seconds
MaxIssueTime == 2
\* the clock is followed from MaxSlack seconds before a token's expiry to
\* MaxSlack seconds after it
MaxSlack == 2

-----------------------------------------------------------------------------
(* Python strings *)

\* Python None, for a string-valued (character sequence) optional
None == <<"<None>">>
\* Python None, for an atom-valued optional (a model name, a status)
NoneAtom == "None"

Min(a, b) == IF a < b THEN a ELSE b

Whitespace == {" ", "\t"}

RECURSIVE LStrip(_)
LStrip(s) ==
    IF s # <<>> /\ Head(s) \in Whitespace THEN LStrip(Tail(s)) ELSE s

RECURSIVE RStrip(_)
RStrip(s) ==
    IF s # <<>> /\ s[Len(s)] \in Whitespace
    THEN RStrip(SubSeq(s, 1, Len(s) - 1))
    ELSE s

\* str.strip()
Strip(s) == RStrip(LStrip(s))

LowerChar(c) ==
    CASE c = "A" -> "a"
      [] c = "B" -> "b"
      [] c = "D" -> "d"
      [] c = "E" -> "e"
      [] c = "I" -> "i"
      [] c = "M" -> "m"
      [] c = "N" -> "n"
      [] c = "X" -> "x"
      [] OTHER -> c

\* str.lower()
Lower(s) == [i \in 1..Len(s) |-> LowerChar(s[i])]

\* (x or '')
OrEmpty(x) == IF x = None THEN <<>> ELSE x
\* (s or None)
OrNone(s) == IF s = <<>> THEN None ELSE s

\* a text of which only a prefix matters
NoText == [id |-> "None", len |-> 0]
\* text[:n]
Prefix(t, n) == [id |-> t.id, len |-> Min(t.len, n)]
\* bool(text)
Truthy(t) == t # NoText /\ t.len > 0

-----------------------------------------------------------------------------
(* routes/ai.py: diagnostics buffers *)

AI_MAXLEN == 50
DIAGNOSTIC_MAXLEN == 400

\* a plausible slip: a full deque drops its newest entry, not its oldest
AppendLeftDropNewest(buf, e, maxlen) ==
    IF Len(buf) < maxlen THEN <<e>> \o buf ELSE <<e>> \o Tail(buf)

\* deque(maxlen=n).appendleft(e): the new entry goes first; a full deque
\* drops the entry at its right end
AppendLeft(buf, e, maxlen) ==
    SubSeq(<<e>> \o buf, 1, Min(Len(buf) + 1, maxlen))

\* the entry _record_error builds; seq is a ghost stamp (the call's number)
ErrorEntry(seq, source, api_version, model) ==
    [seq |-> seq, source |-> source, api_version |-> api_version, model |-> model]

\* a plausible slip: append() in place of appendleft()
RecordErrorAtRight(buf, seq, source, api_version, model) ==
    LET all == Append(buf, ErrorEntry(seq, source, api_version, model))
    IN  SubSeq(all, Len(all) - Min(Len(all), AI_MAXLEN) + 1, Len(all))

\* _record_error(source, api_version, model, ...)
RecordError(buf, seq, source, api_version, model) ==
    AppendLeft(buf, ErrorEntry(seq, source, api_version, model), AI_MAXLEN)

\* _record_event(event, detail)
RecordEvent(buf, seq, event, detail) ==
    AppendLeft(buf, [seq |-> seq, event |-> event, detail |-> detail], AI_MAXLEN)

-----------------------------------------------------------------------------
(* config.py, auth.py: settings, password hashes, session tokens *)

S_admin == <<"a", "d", "m", "i", "n">>
S_employee == <<"e", "m", "p", "l", "o", "y", "e", "e">>
S_default_company == <<"d", "e", "f", "a", "u", "l", "t">>

\* ADMIN_EMAILS, split at the commas
ADMIN_EMAILS_RAW == << <<" ", "A", "@", "x">>, <<" ">> >>

\* [e.strip().lower() for e in admin_emails.split(',') if e.strip()]
ParseAdminEmails(raw) ==
    {Lower(Strip(raw[i])) : i \in {j \in 1..Len(raw) : Strip(raw[j]) # <<>>}}

\* settings.admin_emails
admin_emails == ParseAdminEmails(ADMIN_EMAILS_RAW)

JWT_SECRET == "server-secret"
JWT_EXPIRES_MINUTES == 1440

\* pwd_context.hash(password): salted, one-way
GetPasswordHash(password) == [scheme |-> "pbkdf2_sha256", of |-> password]
\* CryptContext(schemes=[...]): the hash formats pwd_context identifies
HashSchemes == {"pbkdf2_sha256", "bcrypt_sha256", "bcrypt"}
\* the value of hashed_password in a row that existed before the column did:
\* ADD COLUMN hashed_password VARCHAR(255) NOT NULL DEFAULT ''
EmptyHash == [scheme |-> "", of |-> "none"]
\* pwd_context.verify raises UnknownHashError (a ValueError) for a stored
\* value that is in none of its formats
UnknownHash(hashed) == hashed.scheme \notin HashSchemes
\* pwd_context.verify(plain, hashed), for a hash it identifies
VerifyPassword(plain, hashed) == hashed.of = plain

NoToken == [sub |-> 0, exp |-> 0, sig |-> "none"]

\* create_access_token({"sub": id}) at time t: jwt.encode writes exp in whole
\* seconds and signs with settings.jwt_secret
CreateAccessToken(sub, t) ==
    [sub |-> sub, exp |-> t + 60 * JWT_EXPIRES_MINUTES, sig |-> JWT_SECRET]

\* what verify_token returned: nothing yet, None, or the payload
NotVerified == [called |-> FALSE, sub |-> 0, exp |-> 0]
Rejected == [called |-> TRUE, sub |-> 0, exp |-> 0]
Payload(tok) == [called |-> TRUE, sub |-> tok.sub, exp |-> tok.exp]

\* a plausible slip: the expiry is not looked at
VerifyTokenNoExpiry(tok, t) ==
    IF tok.sig # JWT_SECRET THEN Rejected ELSE Payload(tok)

\* verify_token at time t: jwt.decode raises JWTError for a signature made
\* with another secret, and ExpiredSignatureError (a JWTError) when
\* exp < now, both in whole seconds
VerifyToken(tok, t) ==
    IF tok.sig # JWT_SECRET THEN Rejected
    ELSE IF tok.exp < t THEN Rejected
    ELSE Payload(tok)

\* a payload without a "sub" entry: payload.get("sub") is None
NoSub == 0

D_credentials == "Could not validate credentials"
D_admin_required == "Admin access required"

\* db.query(User).filter(User.id == user_id).first(): the index of the row,
\* 0 if there is none
FindById(tbl, user_id) ==
    LET hits == {i \in 1..Len(tbl) : tbl[i].id = user_id}
    IN  IF hits = {} THEN 0 ELSE CHOOSE i \in hits : \A j \in hits : i <= j

\* what a dependency hands on: the User, or the HTTPException it raises
Authorized(user) == [status |-> 200, detail |-> "", user |-> user.id]
Denied401 == [status |-> 401, detail |-> D_credentials, user |-> 0]
Denied403 == [status |-> 403, detail |-> D_admin_required, user |-> 0]

\* a plausible slip: a deactivated account is turned away
GetCurrentActiveUser(tok, tbl, t) ==
    LET payload == VerifyToken(tok, t)
        i == FindById(tbl, payload.sub)
    IN  IF payload = Rejected THEN Denied401
        ELSE IF payload.sub = NoSub THEN Denied401
        ELSE IF i = 0 THEN Denied401
        ELSE IF ~tbl[i].is_active THEN Denied401
        ELSE Authorized(tbl[i])

\* get_current_user for the bearer token tok at time t
GetCurrentUser(tok, tbl, t) ==
    LET payload == VerifyToken(tok, t)
        i == FindById(tbl, payload.sub)
    IN  IF payload = Rejected THEN Denied401
        ELSE IF payload.sub = NoSub THEN Denied401
        ELSE IF i = 0 THEN Denied401
        ELSE Authorized(tbl[i])

\* a plausible slip: the gate asks for an authenticated user only
GetCurrentAdminUserOpen(current, tbl) == current

\* get_current_admin_user over what get_current_user handed on
GetCurrentAdminUser(current, tbl) ==
    IF current.status # 200 THEN current
    ELSE IF tbl[FindById(tbl, current.user)].role # S_admin THEN Denied403
    ELSE current

-----------------------------------------------------------------------------
(* database.py, models.py: the users table *)

\* SQL trim(): blanks only
RECURSIVE SqlLTrim(_)
SqlLTrim(s) == IF s # <<>> /\ Head(s) = " " THEN SqlLTrim(Tail(s)) ELSE s
RECURSIVE SqlRTrim(_)
SqlRTrim(s) ==
    IF s # <<>> /\ s[Len(s)] = " " THEN SqlRTrim(SubSeq(s, 1, Len(s) - 1)) ELSE s
SqlTrim(s) == SqlRTrim(SqlLTrim(s))
\* SQL lower()
SqlLower(s) == Lower(s)

\* the key of users_email_unique_ci: lower(trim(email))
IndexKey(email) == SqlLower(SqlTrim(email))

\* a plausible slip: the unique index is never created
NoUniqueViolation(tbl, email) == FALSE

\* an INSERT of a row with this email violates the unique index
UniqueViolation(tbl, email) ==
    \E i \in 1..Len(tbl) : IndexKey(tbl[i].email) = IndexKey(email)

\* filter(func.trim(func.lower(User.email)) == email_norm).first(): the index
\* of the first matching row, 0 if there is none
FindByTrimLowerEmail(tbl, email_norm) ==
    LET hits == {i \in 1..Len(tbl) : SqlTrim(SqlLower(tbl[i].email)) = email_norm}
    IN  IF hits = {} THEN 0 ELSE CHOOSE i \in hits : \A j \in hits : i <= j

\* filter(func.lower(User.email) == email_norm).first()
FindByLowerEmail(tbl, email_norm) ==
    LET hits == {i \in 1..Len(tbl) : SqlLower(tbl[i].email) = email_norm}
    IN  IF hits = {} THEN 0 ELSE CHOOSE i \in hits : \A j \in hits : i <= j

NoUser == [id |-> 0, email |-> <<>>, hashed_password |-> GetPasswordHash("none"),
           name |-> <<>>, role |-> <<>>, company_id |-> <<>>, is_active |-> FALSE]

\* db.add(row); db.commit(): the id is a fresh one
Insert(tbl, row) == Append(tbl, [row EXCEPT !.id = Len(tbl) + 1])

-----------------------------------------------------------------------------
(* routes/auth.py: signup, login, google-sync *)

\* concurrent request handlers
Procs == {"h1", "h2"}

RawEmails == {<<"a", "@", "x">>, <<" ", "A", "@", "X">>, <<"b", "@", "x">>}
RawRoles == {S_employee, <<"A", "d", "m", "i", "n">>, <<"b", "o", "s", "s">>}
Passwords == {"pw1", "pw2"}
RawName == <<"N", " ">>
RawCompany == <<" ">>
FirebaseUid == <<"u", "1">>

\* a row kept from a time when its address was not on the allowlist
LegacyRow ==
    [id |-> 1, email |-> <<"a", "@", "x">>,
     hashed_password |-> GetPasswordHash("pw1"), name |-> <<"O">>,
     role |-> S_employee, company_id |-> <<"c">>, is_active |-> TRUE]

\* the tables the server may start with: none; the legacy row; the legacy row
\* and a deactivated account; a row older than the hashed_password column
InitialTables ==
    {<<>>,
     <<LegacyRow>>,
     <<LegacyRow,
       [LegacyRow EXCEPT !.id = 2, !.email = <<"b", "@", "x">>,
                         !.is_active = FALSE]>>,
     <<[LegacyRow EXCEPT !.email = <<"b", "@", "x">>,
                         !.hashed_password = EmptyHash]>>}

\* email.strip().lower()
NormalizeEmail(email) == Lower(Strip(email))

\* a plausible slip: the allowlist is not consulted
ResolveRoleNoAllowlist(email_norm, role) ==
    LET requested_role == IF role # <<>> THEN Lower(role) ELSE S_employee
    IN  IF requested_role \in {S_employee, S_admin} THEN requested_role
        ELSE S_employee

\* role_str of signup (lines 44-52) and of google_auth_sync (lines 192-199)
ResolveRole(email_norm, role) ==
    LET requested_role == IF role # <<>> THEN Lower(role) ELSE S_employee
    IN  IF email_norm \in admin_emails THEN S_admin
        ELSE IF requested_role \in {S_employee, S_admin} THEN requested_role
        ELSE S_employee

\* (company_id or "").strip() or "default-company"
NormalizeCompany(c) ==
    IF Strip(OrEmpty(c)) = <<>> THEN S_default_company ELSE Strip(OrEmpty(c))

\* the User built by signup and by google_auth_sync
NewUser(email, password, name, role, company_id) ==
    [id |-> 0, email |-> NormalizeEmail(email),
     hashed_password |-> GetPasswordHash(password), name |-> Strip(name),
     role |-> ResolveRole(NormalizeEmail(email), role),
     company_id |-> NormalizeCompany(company_id), is_active |-> TRUE]

\* a plausible slip: no "except HTTPException: raise" before "except Exception"
SignupStatusNoPassThrough(exc) ==
    IF exc.kind = "IntegrityError" /\ {"unique", "email"} \subseteq exc.msg
    THEN 409 ELSE 500

\* the status signup answers with when exc is raised (lines 93-117)
SignupStatus(exc) ==
    IF exc.kind = "IntegrityError"
    THEN (IF {"unique", "email"} \subseteq exc.msg THEN 409 ELSE 500)
    ELSE IF exc.kind = "HTTPException" THEN exc.status
    ELSE 500

\* the status google_auth_sync answers with when exc is raised (lines 258-266)
SyncStatus(exc) == IF exc.kind = "HTTPException" THEN exc.status ELSE 500

\* what the database raises for a duplicate e-mail
DuplicateEmail ==
    [kind |-> "IntegrityError", status |-> 0,
     msg |-> {"duplicate", "key", "unique", "constraint", "users", "email", "ci"}]
Conflict == [kind |-> "HTTPException", status |-> 409, msg |-> {}]

NoReq == [op |-> "none", email |-> <<>>, role |-> <<>>, password |-> "none"]
\* a handler's locals: the User it builds or loaded, and for google-sync the
\* index of existing_user (0: none) with the values loaded by the query
NoLoc == [row |-> NoUser, existing |-> 0, loaded |-> NoUser]
NoOut ==
    [status |-> 0, detail |-> "", cause |-> "none", user |-> NoUser,
     token |-> NoToken]
\* HTTPException(status_code, detail); cause is a ghost: where it arose
ErrorOut(status, detail, cause) ==
    [status |-> status, detail |-> detail, cause |-> cause, user |-> NoUser,
     token |-> NoToken]
\* LoginResponse(access_token, "bearer", user)
LoginResponse(user, t) ==
    [status |-> 200, detail |-> "", cause |-> "none", user |-> user,
     token |-> CreateAccessToken(user.id, t)]

\* the details of the errors
D_exists == "User with this email already exists"
D_invalid == "Invalid email or password"
D_deactivated == "Account is deactivated"
D_login_error == "Internal server error during login"
D_sync_error == "Internal server error during Google sync"

InitAuthVars ==
    /\ users = <<>>
    /\ initial_users = users
    /\ pc = [p \in Procs |-> "idle"]
    /\ req = [p \in Procs |-> NoReq]
    /\ loc = [p \in Procs |-> NoLoc]
    /\ out = [p \in Procs |-> NoOut]

InitTokVars ==
    /\ now = 0
    /\ token = NoToken
    /\ verified = NotVerified

AuthFrame ==
    UNCHANGED <<confVars, diagVars, chatVars, tokVars, extVars, initial_users>>

\* signup, lines 17-36: the request arrives, the existence check
SignupQuery(p) ==
    /\ pc[p] = "idle"
    /\ \E em \in RawEmails, ro \in RawRoles :
        LET email_norm == NormalizeEmail(em)
            existing == FindByTrimLowerEmail(users, email_norm)
        IN  /\ req' = [req EXCEPT ![p] = [op |-> "signup", email |-> em,
                                          role |-> ro, password |-> "pw1"]]
            /\ IF existing # 0
               THEN /\ out' = [out EXCEPT ![p] =
                                  ErrorOut(SignupStatus(Conflict), D_exists, "query")]
                    /\ pc' = [pc EXCEPT ![p] = "done"]
                    /\ UNCHANGED loc
               ELSE /\ loc' = [loc EXCEPT ![p] =
                                  [row |-> NewUser(em, "pw1", RawName, ro, RawCompany),
                                   existing |-> 0, loaded |-> NoUser]]
                    /\ pc' = [pc EXCEPT ![p] = "signup_commit"]
                    /\ UNCHANGED out
    /\ UNCHANGED users
    /\ AuthFrame

\* signup, lines 54-117: the insert, then the token and the answer
SignupCommit(p) ==
    /\ pc[p] = "signup_commit"
    /\ IF UniqueViolation(users, loc[p].row.email)
       THEN /\ out' = [out EXCEPT ![p] =
                          ErrorOut(SignupStatus(DuplicateEmail), D_exists, "commit")]
            /\ UNCHANGED users
       ELSE /\ users' = Insert(users, loc[p].row)
            /\ out' = [out EXCEPT ![p] = LoginResponse(users'[Len(users')], now)]
    /\ pc' = [pc EXCEPT ![p] = "done"]
    /\ UNCHANGED <<req, loc>>
    /\ AuthFrame

\* a plausible slip: the existing user is returned as stored
FlushNothing(current, loaded, row) == current

\* db.commit() after the attribute assignments of lines 212-215: the UPDATE
\* sets the attributes whose assigned value differs from the loaded one
Flush(current, loaded, row) ==
    [current EXCEPT
        !.name = IF row.name # loaded.name THEN row.name ELSE @,
        !.role = IF row.role # loaded.role THEN row.role ELSE @,
        !.company_id = IF row.company_id # loaded.company_id
                       THEN row.company_id ELSE @,
        !.is_active = IF ~loaded.is_active THEN TRUE ELSE @]

\* google_auth_sync, lines 182-207: the request arrives, the existence check
SyncQuery(p) ==
    /\ pc[p] = "idle"
    /\ \E em \in RawEmails, ro \in RawRoles :
        LET i == FindByTrimLowerEmail(users, NormalizeEmail(em))
        IN  /\ req' = [req EXCEPT ![p] = [op |-> "google-sync", email |-> em,
                                          role |-> ro, password |-> "none"]]
            /\ loc' = [loc EXCEPT ![p] =
                          [row |-> NewUser(em, FirebaseUid, RawName, ro, RawCompany),
                           existing |-> i,
                           loaded |-> IF i = 0 THEN NoUser ELSE users[i]]]
    /\ pc' = [pc EXCEPT ![p] = "sync_commit"]
    /\ UNCHANGED <<users, out>>
    /\ AuthFrame

\* google_auth_sync, lines 209-266: the update or the insert, then the answer
SyncCommit(p) ==
    /\ pc[p] = "sync_commit"
    /\ LET row == loc[p].row
           i == loc[p].existing
       IN  IF i # 0
           THEN /\ users' = [users EXCEPT ![i] = Flush(@, loc[p].loaded, row)]
                /\ out' = [out EXCEPT ![p] = LoginResponse(users'[i], now)]
           ELSE IF UniqueViolation(users, row.email)
           THEN /\ out' = [out EXCEPT ![p] =
                              ErrorOut(SyncStatus(DuplicateEmail), D_sync_error, "commit")]
                /\ UNCHANGED users
           ELSE /\ users' = Insert(users, row)
                /\ out' = [out EXCEPT ![p] = LoginResponse(users'[Len(users')], now)]
    /\ pc' = [pc EXCEPT ![p] = "done"]
    /\ UNCHANGED <<req, loc>>
    /\ AuthFrame

\* a plausible slip: login keeps the stored role
LoginRoleKept(user) == user.role

\* login, lines 137-144: the role of an allowlisted user becomes admin
LoginRole(user) ==
    IF Lower(Strip(user.email)) \in admin_emails /\ Lower(user.role) # S_admin
    THEN S_admin ELSE user.role

\* login, lines 122-135 and 162-167, and authenticate_user: the lookup and the
\* checks; what verify_password raises reaches login's "except Exception"
LoginQuery(p) ==
    /\ pc[p] = "idle"
    /\ \E em \in RawEmails, pw \in Passwords :
        LET email_norm == Lower(Strip(OrEmpty(em)))
            i == FindByLowerEmail(users, email_norm)
        IN  /\ req' = [req EXCEPT ![p] = [op |-> "login", email |-> em,
                                          role |-> <<>>, password |-> pw]]
            /\ IF i = 0
               THEN /\ out' = [out EXCEPT ![p] =
                                  ErrorOut(401, D_invalid, "invalid")]
                    /\ pc' = [pc EXCEPT ![p] = "done"]
                    /\ UNCHANGED loc
               ELSE IF UnknownHash(users[i].hashed_password)
               THEN /\ out' = [out EXCEPT ![p] =
                                  ErrorOut(500, D_login_error, "error")]
                    /\ pc' = [pc EXCEPT ![p] = "done"]
                    /\ UNCHANGED loc
               ELSE IF ~VerifyPassword(pw, users[i].hashed_password)
               THEN /\ out' = [out EXCEPT ![p] =
                                  ErrorOut(401, D_invalid, "invalid")]
                    /\ pc' = [pc EXCEPT ![p] = "done"]
                    /\ UNCHANGED loc
               ELSE IF ~users[i].is_active
               THEN /\ out' = [out EXCEPT ![p] =
                                  ErrorOut(401, D_deactivated, "deactivated")]
                    /\ pc' = [pc EXCEPT ![p] = "done"]
                    /\ UNCHANGED loc
               ELSE /\ loc' = [loc EXCEPT ![p] =
                                  [row |-> users[i], existing |-> i,
                                   loaded |-> users[i]]]
                    /\ pc' = [pc EXCEPT ![p] = "login_commit"]
                    /\ UNCHANGED out
    /\ UNCHANGED users
    /\ AuthFrame

\* login, lines 137-158: the role update of an allowlisted user (committed,
\* then the row is read again), the token and the answer
LoginCommit(p) ==
    /\ pc[p] = "login_commit"
    /\ LET user == loc[p].row
           i == loc[p].existing
       IN  IF LoginRole(user) # user.role
           THEN /\ users' = [users EXCEPT ![i] = [@ EXCEPT !.role = LoginRole(user)]]
                /\ out' = [out EXCEPT ![p] = LoginResponse(users'[i], now)]
           ELSE /\ UNCHANGED users
                /\ out' = [out EXCEPT ![p] = LoginResponse(user, now)]
    /\ pc' = [pc EXCEPT ![p] = "done"]
    /\ UNCHANGED <<req, loc>>
    /\ AuthFrame

\* the answer leaves; the handler is free for the next request
Respond(p) ==
    /\ pc[p] = "done"
    /\ pc' = [pc EXCEPT ![p] = "idle"]
    /\ req' = [req EXCEPT ![p] = NoReq]
    /\ loc' = [loc EXCEPT ![p] = NoLoc]
    /\ out' = [out EXCEPT ![p] = NoOut]
    /\ UNCHANGED users
    /\ AuthFrame

-----------------------------------------------------------------------------
(* database.py: ensure_users_table over the schema of public.users *)

\* the keys of `required`
RequiredColumns ==
    {"email", "hashed_password", "name", "role", "company_id", "is_active",
     "created_at", "updated_at"}
\* of these, the ones declared NOT NULL without a DEFAULT: ADD COLUMN fails
\* for them on a table that has rows
NoDefaultColumns == {"email", "name"}
\* a column of an older deployment that the code knows nothing about
LegacyColumn == "password"
\* if id_col_info[0] in ('integer','bigint','smallint')
IntegerLike == {"integer", "bigint", "smallint"}

\* no table; rows is "empty", "some" or "duplicates" (two e-mails equal after
\* lower(trim())); seq is "none" or "synced" (set to MAX(id))
NoTable ==
    [exists |-> FALSE, columns |-> {}, id_type |-> "none", id_default |-> FALSE,
     seq |-> "none", pkey |-> FALSE, trigger |-> FALSE, index_ci |-> FALSE,
     rows |-> "empty"]

\* CREATE TABLE IF NOT EXISTS public.users (id INTEGER PRIMARY KEY, ...)
CreateTableIfNotExists(s) ==
    IF s.exists THEN s
    ELSE [NoTable EXCEPT !.exists = TRUE, !.columns = RequiredColumns \cup {"id"},
                         !.id_type = "integer", !.pkey = TRUE]

\* a plausible slip: the table is given exactly the columns of the model
ReplaceColumns(existing) == RequiredColumns \cup {"id"}

\* for col in required: if col not in existing: ALTER TABLE ... ADD COLUMN
AddMissingColumns(existing) == existing \cup (RequiredColumns \ existing)

\* an ADD COLUMN ... NOT NULL without DEFAULT meets rows
AddColumnFails(s) ==
    s.rows # "empty" /\ (NoDefaultColumns \ s.columns) # {}

\* lines 144-170: the sequence, the default and the primary key of an
\* integer id
ConfigureId(s) ==
    IF s.id_type \in IntegerLike
    THEN [s EXCEPT !.seq = "synced", !.id_default = TRUE, !.pkey = TRUE]
    ELSE s

\* setval('public.users_id_seq', COALESCE(MAX(id), 0)): 0 is below the
\* sequence's minimum, so the statement fails on a table without rows
SetvalFails(s) == s.id_type \in IntegerLike /\ s.rows = "empty"

\* CREATE UNIQUE INDEX IF NOT EXISTS ... (lower(trim(email))) meets duplicates
CreateIndexFails(s) == ~s.index_ci /\ s.rows = "duplicates"

\* ensure_users_table() on schema s: whether it returned, and the schema it
\* leaves; engine.begin() rolls everything back when a statement fails
EnsureUsersTable(s) ==
    LET s1 == CreateTableIfNotExists(s)
        s2 == [s1 EXCEPT !.columns = AddMissingColumns(@), !.trigger = TRUE]
        s3 == ConfigureId(s2)
        s4 == [s3 EXCEPT !.index_ci = TRUE]
    IN  IF AddColumnFails(s1) \/ SetvalFails(s2) \/ CreateIndexFails(s3)
        THEN [ok |-> FALSE, schema |-> s]
        ELSE [ok |-> TRUE, schema |-> s4]

\* Base.metadata.create_all(bind=engine): creates users from models.User when
\* it is missing (id VARCHAR(36), a plain unique index on email)
CreateAll(s) ==
    IF s.exists THEN s
    ELSE [NoTable EXCEPT !.exists = TRUE, !.columns = RequiredColumns \cup {"id"},
                         !.id_type = "character varying", !.pkey = TRUE]

\* the users tables of older deployments: any subset of the required columns,
\* an integer id, a text id or none, a column of their own, with or without
\* rows
LegacySchemas ==
    {[NoTable EXCEPT !.exists = TRUE,
                     !.columns = cols \cup {LegacyColumn}
                                 \cup (IF idt = "none" THEN {} ELSE {"id"}),
                     !.id_type = idt, !.pkey = (idt # "none"), !.rows = r] :
        cols \in SUBSET RequiredColumns,
        idt \in {"integer", "character varying", "none"},
        r \in {"empty", "some", "duplicates"}}

InitialSchemas ==
    {NoTable} \cup {s \in LegacySchemas :
                        s.rows = "duplicates" => "email" \in s.columns}

-----------------------------------------------------------------------------
(* main.py: lifespan *)

NoRun == [ran |-> FALSE, ok |-> FALSE, prev_ok |-> FALSE]

\* a plausible slip: one try block around the whole startup
OnRaiseOuterOnly(site, connected) ==
    [pc |-> "serving", db_connected |-> FALSE]

\* where the startup continues and what db_connected is after an exception
\* at site: the inner handlers (lines 61 and 71) log and go on
OnRaise(site, connected) ==
    IF site = "reconcile" THEN [pc |-> "create", db_connected |-> connected]
    ELSE IF site = "create" THEN [pc |-> "serving", db_connected |-> connected]
    ELSE [pc |-> "serving", db_connected |-> FALSE]

InitBootVars ==
    /\ schema = NoTable
    /\ boot_pc = "down"
    /\ db_connected = FALSE
    /\ conn_test = "none"
    /\ last_run = NoRun
    /\ boot_log = {}
    /\ boots = 0

BootFrame ==
    UNCHANGED <<confVars, diagVars, chatVars, authVars, tokVars, callVars,
                pipeVars,
                concVars, sessVars>>

\* lines 46-55 and 74-83: the process starts; the flags of the imports; the
\* connection test
BootStart ==
    /\ boot_pc = "down"
    /\ boots < MaxBoots
    /\ boots' = boots + 1
    /\ \E loaded \in BOOLEAN, reachable \in BOOLEAN :
        IF ~loaded
        THEN /\ conn_test' = "skipped"
             /\ db_connected' = FALSE
             /\ boot_pc' = "serving"
        ELSE IF ~reachable
        THEN /\ conn_test' = "failed"
             /\ db_connected' = FALSE
             /\ boot_pc' = "serving"
        ELSE /\ conn_test' = "passed"
             /\ db_connected' = TRUE
             /\ boot_pc' = "reconcile"
    /\ boot_log' = {}
    /\ UNCHANGED <<schema, last_run>>
    /\ BootFrame

\* lines 57-63: ensure_users_table(); fault: the database fails under it
BootReconcile ==
    /\ boot_pc = "reconcile"
    /\ \E fault \in BOOLEAN :
        LET run == IF fault THEN [ok |-> FALSE, schema |-> schema]
                   ELSE EnsureUsersTable(schema)
            nxt == IF run.ok
                   THEN [pc |-> "create", db_connected |-> db_connected]
                   ELSE OnRaise("reconcile", db_connected)
        IN  /\ schema' = run.schema
            /\ last_run' = [ran |-> TRUE, ok |-> run.ok,
                            prev_ok |-> last_run.ran /\ last_run.ok]
            /\ boot_log' = IF run.ok THEN boot_log
                           ELSE boot_log \cup {"reconcile"}
            /\ boot_pc' = nxt.pc
            /\ db_connected' = nxt.db_connected
    /\ UNCHANGED <<conn_test, boots>>
    /\ BootFrame

\* lines 65-73: Base.metadata.create_all
BootCreateAll ==
    /\ boot_pc = "create"
    /\ \E fault \in BOOLEAN :
        LET nxt == IF fault THEN OnRaise("create", db_connected)
                   ELSE [pc |-> "serving", db_connected |-> db_connected]
        IN  /\ schema' = IF fault THEN schema ELSE CreateAll(schema)
            /\ boot_log' = IF fault THEN boot_log \cup {"create"} ELSE boot_log
            /\ boot_pc' = nxt.pc
            /\ db_connected' = nxt.db_connected
    /\ UNCHANGED <<conn_test, last_run, boots>>
    /\ BootFrame

\* while serving, a first user is stored
ServeInsert ==
    /\ boot_pc = "serving"
    /\ db_connected
    /\ schema.exists /\ RequiredColumns \cup {"id"} \subseteq schema.columns
    /\ schema.rows = "empty"
    /\ schema' = [schema EXCEPT !.rows = "some"]
    /\ UNCHANGED <<boot_pc, db_connected, conn_test, last_run, boot_log, boots>>
    /\ BootFrame

\* the process ends and is started again later
Shutdown ==
    /\ boot_pc = "serving"
    /\ boots < MaxBoots
    /\ boot_pc' = "down"
    /\ db_connected' = FALSE
    /\ conn_test' = "none"
    /\ UNCHANGED <<schema, last_run, boot_log, boots>>
    /\ BootFrame

-----------------------------------------------------------------------------
(* routes/calls.py: the call_records table and its five routes; the routes
   await nothing between their query and their commit, so each is one step *)

\* the registered users of the call-record runs: an admin and two employees
CallUsers ==
    <<[LegacyRow EXCEPT !.id = 1, !.role = S_admin],
      [LegacyRow EXCEPT !.id = 2, !.email = <<"b", "@", "x">>],
      [LegacyRow EXCEPT !.id = 3, !.email = <<"c", "@", "x">>]>>

\* CallStatus
CS_recording == "recording"
CS_completed == "completed"
CS_transcribing == "transcribing"
CS_analyzed == "analyzed"
CS_failed == "failed"

\* an absent or empty user_id / call id
NoId == 0
\* the user_id form field: the id of a user, or of nobody
UserIdChoices == {2, 3, 9}
\* the other form fields: ended_at given or not, audio_file given or not
UploadForms ==
    {[customer_number |-> "c1", started_at |-> 1, ended_at |-> FALSE,
      audio |-> FALSE],
     [customer_number |-> "c1", started_at |-> 2, ended_at |-> TRUE,
      audio |-> TRUE],
     [customer_number |-> "c2", started_at |-> 2, ended_at |-> TRUE,
      audio |-> FALSE]}
CustomerNumberChoices == {NoneAtom, "", "c1"}
LimitChoices == {1, 50}

NoArgs == [call_id |-> NoId, customer_number |-> NoneAtom, user_id |-> NoId,
           limit |-> 0]
NoCallOut == [op |-> "none", user |-> NoId, args |-> NoArgs, status |-> 0,
              body |-> <<>>]
\* what a route answers: the records it returns are in body
CallOut(op, current_user, args, status, body) ==
    [op |-> op, user |-> current_user.id, args |-> args, status |-> status,
     body |-> body]

InitCallVars ==
    /\ call_records = <<>>
    /\ call_seq = 0
    /\ call_out = NoCallOut

\* CallRecord(user_id=user_id, ..., status=COMPLETED if ended_at else
\* RECORDING, ...)
NewCallRecord(id, user_id, f) ==
    [id |-> id, user_id |-> user_id, customer_number |-> f.customer_number,
     status |-> IF f.ended_at THEN CS_completed ELSE CS_recording,
     started_at |-> f.started_at, has_audio |-> f.audio]

\* ForeignKey('users.id') on call_records.user_id
ForeignKeyViolation(tbl, user_id) ==
    ~\E i \in 1..Len(tbl) : tbl[i].id = user_id

\* filter(CallRecord.id == call_id).first(): the index of the row, 0 if none
FindCall(tbl, call_id) ==
    LET hits == {i \in 1..Len(tbl) : tbl[i].id = call_id}
    IN  IF hits = {} THEN 0 ELSE CHOOSE i \in hits : \A j \in hits : i <= j

\* db.delete(call_record); db.commit()
DeleteRow(tbl, i) ==
    [j \in 1..(Len(tbl) - 1) |-> IF j < i THEN tbl[j] ELSE tbl[j + 1]]

\* a plausible slip: "or" for "and"
DeniedOr(current_user, call_record) ==
    current_user.role # S_admin \/ call_record.user_id # current_user.id

\* if current_user.role != "admin" and call_record.user_id != current_user.id
Denied(current_user, call_record) ==
    current_user.role # S_admin /\ call_record.user_id # current_user.id

\* a plausible slip: the filter on the caller's id is left out
OwnFilterOff(current_user, call_record) == TRUE

\* if current_user.role != "admin": filter(user_id == current_user.id)
OwnFilter(current_user, call_record) ==
    current_user.role # S_admin => call_record.user_id = current_user.id

\* the filters of get_call_records, lines 102-110
Selected(current_user, customer_number, user_id, call_record) ==
    /\ customer_number \notin {NoneAtom, ""}
        => call_record.customer_number = customer_number
    /\ user_id # NoId => call_record.user_id = user_id
    /\ OwnFilter(current_user, call_record)

\* order_by(started_at.desc()).limit(limit).all() over the rows hits: every
\* list the database may return (rows with equal started_at in any order)
QueryResults(tbl, hits, limit) ==
    LET n == Min(limit, Cardinality(hits))
    IN  {[k \in 1..n |-> tbl[f[k]]] :
            f \in {g \in [1..n -> hits] :
                    /\ \A a, b \in 1..n : a # b => g[a] # g[b]
                    /\ \A a, b \in 1..n :
                        a < b => tbl[g[a]].started_at >= tbl[g[b]].started_at
                    /\ \A h \in hits :
                        (\A a \in 1..n : g[a] # h)
                        => \A a \in 1..n :
                            tbl[g[a]].started_at >= tbl[h].started_at}}

CallFrame ==
    UNCHANGED <<confVars, diagVars, chatVars, authVars, tokVars, bootVars,
                pipeVars,
                concVars, sessVars>>

\* upload_call_recording
UploadCallRecording ==
    /\ call_seq < MaxUploads
    /\ \E u \in 1..Len(users), user_id \in UserIdChoices, f \in UploadForms :
        LET current_user == users[u]
            args == [NoArgs EXCEPT !.user_id = user_id,
                                   !.customer_number = f.customer_number]
            call_record == NewCallRecord(call_seq + 1, user_id, f)
        IN  IF ForeignKeyViolation(users, user_id)
            THEN /\ call_out' = CallOut("upload", current_user, args, 500, <<>>)
                 /\ UNCHANGED <<call_records, call_seq>>
            ELSE /\ call_records' = Append(call_records, call_record)
                 /\ call_seq' = call_seq + 1
                 /\ call_out' = CallOut("upload", current_user, args, 200,
                                        <<call_record>>)
    /\ CallFrame

\* get_call_records
GetCallRecords ==
    /\ \E u \in 1..Len(users), customer_number \in CustomerNumberChoices,
          user_id \in {NoId, 3}, limit \in LimitChoices :
        LET current_user == users[u]
            args == [NoArgs EXCEPT !.user_id = user_id, !.limit = limit,
                                   !.customer_number = customer_number]
            hits == {i \in 1..Len(call_records) :
                        Selected(current_user, customer_number, user_id,
                                 call_records[i])}
        IN  \E body \in QueryResults(call_records, hits, limit) :
                call_out' = CallOut("list", current_user, args, 200, body)
    /\ UNCHANGED <<call_records, call_seq>>
    /\ CallFrame

\* get_call_record
GetCallRecord ==
    /\ \E u \in 1..Len(users), call_id \in 0..call_seq :
        LET current_user == users[u]
            args == [NoArgs EXCEPT !.call_id = call_id]
            i == FindCall(call_records, call_id)
        IN  call_out' =
                IF i = 0 THEN CallOut("get", current_user, args, 404, <<>>)
                ELSE IF Denied(current_user, call_records[i])
                THEN CallOut("get", current_user, args, 403, <<>>)
                ELSE CallOut("get", current_user, args, 200, <<call_records[i]>>)
    /\ UNCHANGED <<call_records, call_seq>>
    /\ CallFrame

\* get_call_audio: the body is the record whose audio_bytes are streamed
GetCallAudio ==
    /\ \E u \in 1..Len(users), call_id \in 0..call_seq :
        LET current_user == users[u]
            args == [NoArgs EXCEPT !.call_id = call_id]
            i == FindCall(call_records, call_id)
        IN  call_out' =
                IF i = 0 THEN CallOut("audio", current_user, args, 404, <<>>)
                ELSE IF Denied(current_user, call_records[i])
                THEN CallOut("audio", current_user, args, 403, <<>>)
                ELSE IF ~call_records[i].has_audio
                THEN CallOut("audio", current_user, args, 404, <<>>)
                ELSE CallOut("audio", current_user, args, 200,
                             <<call_records[i]>>)
    /\ UNCHANGED <<call_records, call_seq>>
    /\ CallFrame

\* delete_call_record
DeleteCallRecord ==
    /\ \E u \in 1..Len(users), call_id \in 0..call_seq :
        LET current_user == users[u]
            args == [NoArgs EXCEPT !.call_id = call_id]
            i == FindCall(call_records, call_id)
        IN  IF i = 0
            THEN /\ call_out' = CallOut("delete", current_user, args, 404, <<>>)
                 /\ UNCHANGED call_records
            ELSE IF Denied(current_user, call_records[i])
            THEN /\ call_out' = CallOut("delete", current_user, args, 403, <<>>)
                 /\ UNCHANGED call_records
            ELSE /\ call_records' = DeleteRow(call_records, i)
                 /\ call_out' = CallOut("delete", current_user, args, 200, <<>>)
    /\ UNCHANGED call_seq
    /\ CallFrame

-----------------------------------------------------------------------------
(* src/backend/main.py: record_call, transcribe_call, generate_ai_summary;
   a handler gives way to the others where it awaits: the audio upload, the
   audio download and the speech-to-text request, the summary request *)

\* the uids the identity provider vouches for; recording is enabled for the
\* first two (users.recording_enabled)
BackendUids == {1, 2, 3}
RecordingEnabled == [u \in BackendUids |-> u # 3]
Phones == {"p1"}
\* audio_url: None (no file, or no bucket), a public URL, or the local
\* fallback
AudioUrls == {"none", "http", "local"}

\* calls.status as this program writes it
ST_recorded == "recorded"
ST_transcribed == "transcribed"
ST_summarized == "summarized"

\* fault is a ghost: the database command of the request that failed
NoJob == [pc |-> "idle", op |-> "none", uid |-> NoId, call_id |-> NoId,
          audio_url |-> "none", customer_id |-> NoId, transcript_id |-> NoId,
          phone |-> "none", fault |-> "none"]
NoJobOut == [status |-> 0, detail |-> "", id |-> NoId, cached |-> FALSE]
JobError(status, detail) ==
    [status |-> status, detail |-> detail, id |-> NoId, cached |-> FALSE]
JobOk(id, cached) == [status |-> 200, detail |-> "", id |-> id, cached |-> cached]

InitPipeVars ==
    /\ calls = <<>>
    /\ transcripts = <<>>
    /\ ai_summaries = <<>>
    /\ customers = <<>>
    /\ job = [p \in Procs |-> NoJob]
    /\ job_out = [p \in Procs |-> NoJobOut]

\* SELECT id FROM customers WHERE phone_number = %s AND employee_id = %s
FindCustomer(tbl, phone_number, employee_id) ==
    LET hits == {i \in 1..Len(tbl) : /\ tbl[i].phone_number = phone_number
                                     /\ tbl[i].employee_id = employee_id}
    IN  IF hits = {} THEN 0 ELSE CHOOSE i \in hits : \A j \in hits : i <= j

\* get_or_create_customer: the id it returns and the table it leaves
GetOrCreateCustomer(tbl, phone_number, employee_id) ==
    LET i == FindCustomer(tbl, phone_number, employee_id)
    IN  IF i # 0 THEN [id |-> tbl[i].id, customers |-> tbl]
        ELSE [id |-> Len(tbl) + 1,
              customers |-> Append(tbl, [id |-> Len(tbl) + 1,
                                         phone_number |-> phone_number,
                                         employee_id |-> employee_id])]

\* INSERT INTO calls (...) VALUES (..., "recorded", ...)
NewCall(id, employee_id, customer_id, audio_url) ==
    [id |-> id, employee_id |-> employee_id, customer_id |-> customer_id,
     status |-> ST_recorded, audio_url |-> audio_url,
     transcript_id |-> NoId, summary_id |-> NoId]

\* SELECT * FROM calls WHERE id = %s AND employee_id = %s
FindOwnCall(tbl, call_id, employee_id) ==
    LET hits == {i \in 1..Len(tbl) : /\ tbl[i].id = call_id
                                     /\ tbl[i].employee_id = employee_id}
    IN  IF hits = {} THEN 0 ELSE CHOOSE i \in hits : \A j \in hits : i <= j

\* SELECT ... FROM transcripts / ai_summaries WHERE id = %s
HasRow(tbl, id) == \E i \in 1..Len(tbl) : tbl[i].id = id

\* UPDATE calls SET status = %s, transcript_id = %s WHERE id = %s
SetTranscript(tbl, call_id, transcript_id) ==
    [i \in 1..Len(tbl) |->
        IF tbl[i].id = call_id
        THEN [tbl[i] EXCEPT !.status = ST_transcribed,
                            !.transcript_id = transcript_id]
        ELSE tbl[i]]

\* UPDATE calls SET status = %s, summary_id = %s WHERE id = %s
SetSummary(tbl, call_id, summary_id) ==
    [i \in 1..Len(tbl) |->
        IF tbl[i].id = call_id
        THEN [tbl[i] EXCEPT !.status = ST_summarized, !.summary_id = summary_id]
        ELSE tbl[i]]

\* a plausible slip: the request's commands run in one transaction, and the
\* rollback of a failed command undoes the commands before it
RollbackWholeRequest(before_request, before_command) == before_request

\* execute_command commits each command by itself; when a command fails its
\* conn.rollback() undoes that command only, and the table stays as the
\* commands before it left it
RollbackFailedCommand(before_request, before_command) == before_command

\* the handlers that are between the check for an existing reference and
\* their insert
InFlight(op) == Cardinality({p \in Procs : job[p].pc = op})

PipeFrame ==
    UNCHANGED <<confVars, diagVars, chatVars, authVars, tokVars, bootVars,
                callVars,
                concVars, sessVars>>

\* record_call, lines 483-531: the recording check, the customer, and, with
\* a file and a bucket, the wait for the file's content
RecordStart(p) ==
    /\ job[p].pc = "idle"
    /\ Len(calls) + InFlight("recording") < MaxPipeCalls
    /\ \E uid \in BackendUids, phone \in Phones, audio_url \in AudioUrls :
        LET c == GetOrCreateCustomer(customers, phone, uid)
            j == [NoJob EXCEPT !.op = "record", !.uid = uid,
                               !.audio_url = audio_url, !.customer_id = c.id]
        IN  IF ~RecordingEnabled[uid]
            THEN /\ job' = [job EXCEPT ![p] = [j EXCEPT !.pc = "done",
                                                        !.customer_id = NoId]]
                 /\ job_out' = [job_out EXCEPT ![p] =
                                   JobError(403, "Call recording not enabled")]
                 /\ UNCHANGED <<calls, customers>>
            ELSE IF audio_url # "none"
            THEN /\ job' = [job EXCEPT ![p] = [j EXCEPT !.pc = "recording"]]
                 /\ customers' = c.customers
                 /\ UNCHANGED <<calls, job_out>>
            ELSE /\ job' = [job EXCEPT ![p] = [j EXCEPT !.pc = "done",
                                                        !.call_id = Len(calls) + 1]]
                 /\ customers' = c.customers
                 /\ calls' = Append(calls, NewCall(Len(calls) + 1, uid, c.id,
                                                   audio_url))
                 /\ job_out' = [job_out EXCEPT ![p] = JobOk(Len(calls) + 1, FALSE)]
    /\ UNCHANGED <<transcripts, ai_summaries>>
    /\ PipeFrame

\* record_call, lines 509-566: the file is stored, the call is inserted
RecordFinish(p) ==
    /\ job[p].pc = "recording"
    /\ calls' = Append(calls, NewCall(Len(calls) + 1, job[p].uid,
                                      job[p].customer_id, job[p].audio_url))
    /\ job' = [job EXCEPT ![p] = [@ EXCEPT !.pc = "done",
                                           !.call_id = Len(calls) + 1]]
    /\ job_out' = [job_out EXCEPT ![p] = JobOk(Len(calls) + 1, FALSE)]
    /\ UNCHANGED <<transcripts, ai_summaries, customers>>
    /\ PipeFrame

\* transcribe_call, lines 580-605: the call, its audio, the check for an
\* existing transcript
TranscribeStart(p) ==
    /\ job[p].pc = "idle"
    /\ \E uid \in BackendUids, call_id \in 0..Len(calls) :
        LET i == FindOwnCall(calls, call_id, uid)
            j == [NoJob EXCEPT !.op = "transcribe", !.uid = uid,
                               !.call_id = call_id]
            done == [j EXCEPT !.pc = "done"]
        IN  IF i = 0
            THEN /\ job' = [job EXCEPT ![p] = done]
                 /\ job_out' = [job_out EXCEPT ![p] =
                                   JobError(404, "Call not found")]
            ELSE IF calls[i].audio_url = "none"
            THEN /\ job' = [job EXCEPT ![p] = done]
                 /\ job_out' = [job_out EXCEPT ![p] =
                                   JobError(400, "Call has no audio URL")]
            ELSE IF /\ calls[i].transcript_id # NoId
                    /\ HasRow(transcripts, calls[i].transcript_id)
            THEN /\ job' = [job EXCEPT ![p] = done]
                 /\ job_out' = [job_out EXCEPT ![p] =
                                   JobOk(calls[i].transcript_id, TRUE)]
            ELSE /\ Len(transcripts) + InFlight("transcribing") < MaxDerived
                 /\ job' = [job EXCEPT ![p] =
                               [j EXCEPT !.pc = "transcribing",
                                         !.audio_url = calls[i].audio_url]]
                 /\ UNCHANGED job_out
    /\ UNCHANGED <<calls, transcripts, ai_summaries, customers>>
    /\ PipeFrame

\* transcribe_call, lines 607-709: the download and the speech-to-text
\* request have answered; the transcript is inserted, then the call is
\* updated; fault: the database command that fails
TranscribeFinish(p) ==
    /\ job[p].pc = "transcribing"
    /\ \E answer \in {"no_download", "provider_error", "blank", "text"},
          fault \in {"none", "insert", "update"} :
        LET transcript_id == Len(transcripts) + 1
            row == [id |-> transcript_id, call_id |-> job[p].call_id]
        IN  /\ job' = [job EXCEPT ![p] = [@ EXCEPT !.pc = "done", !.fault = fault]]
            /\ IF answer # "text"
               THEN /\ fault = "none"
                    /\ job_out' = [job_out EXCEPT ![p] =
                          IF answer = "no_download"
                          THEN JobError(400, "Failed to download audio file")
                          ELSE IF answer = "provider_error"
                          THEN JobError(429, "Whisper API error")
                          ELSE JobError(400, "No transcript generated")]
                    /\ UNCHANGED <<calls, transcripts>>
               ELSE IF fault = "insert"
               THEN /\ job_out' = [job_out EXCEPT ![p] =
                                      JobError(500, "Internal server error")]
                    /\ UNCHANGED <<calls, transcripts>>
               ELSE IF fault = "update"
               THEN /\ transcripts' = RollbackFailedCommand(transcripts,
                                           Append(transcripts, row))
                    /\ job_out' = [job_out EXCEPT ![p] =
                                      JobError(500, "Internal server error")]
                    /\ UNCHANGED calls
               ELSE /\ transcripts' = Append(transcripts, row)
                    /\ calls' = SetTranscript(calls, job[p].call_id, transcript_id)
                    /\ job_out' = [job_out EXCEPT ![p] = JobOk(transcript_id, FALSE)]
    /\ UNCHANGED <<ai_summaries, customers>>
    /\ PipeFrame

\* generate_ai_summary, lines 718-761: the call, its transcript, the check
\* for an existing summary
SummaryStart(p) ==
    /\ job[p].pc = "idle"
    /\ \E uid \in BackendUids, call_id \in 0..Len(calls) :
        LET i == FindOwnCall(calls, call_id, uid)
            j == [NoJob EXCEPT !.op = "summary", !.uid = uid,
                               !.call_id = call_id]
            done == [j EXCEPT !.pc = "done"]
        IN  IF i = 0
            THEN /\ job' = [job EXCEPT ![p] = done]
                 /\ job_out' = [job_out EXCEPT ![p] =
                                   JobError(404, "Call not found")]
            ELSE IF calls[i].transcript_id = NoId
            THEN /\ job' = [job EXCEPT ![p] = done]
                 /\ job_out' = [job_out EXCEPT ![p] =
                                   JobError(400, "Call has no transcript")]
            ELSE IF /\ calls[i].summary_id # NoId
                    /\ HasRow(ai_summaries, calls[i].summary_id)
            THEN /\ job' = [job EXCEPT ![p] = done]
                 /\ job_out' = [job_out EXCEPT ![p] =
                                   JobOk(calls[i].summary_id, TRUE)]
            ELSE IF ~HasRow(transcripts, calls[i].transcript_id)
            THEN /\ job' = [job EXCEPT ![p] = done]
                 /\ job_out' = [job_out EXCEPT ![p] =
                                   JobError(404, "Transcript not found")]
            ELSE /\ Len(ai_summaries) + InFlight("summarizing") < MaxDerived
                 /\ job' = [job EXCEPT ![p] =
                               [j EXCEPT !.pc = "summarizing",
                                         !.transcript_id = calls[i].transcript_id]]
                 /\ UNCHANGED job_out
    /\ UNCHANGED <<calls, transcripts, ai_summaries, customers>>
    /\ PipeFrame

\* generate_ai_summary, lines 794-872: the summary request has answered; the
\* summary (parsed, or the fallback) is inserted, then the call is updated
SummaryFinish(p) ==
    /\ job[p].pc = "summarizing"
    /\ \E answer \in {"provider_error", "text"},
          fault \in {"none", "insert", "update"} :
        LET summary_id == Len(ai_summaries) + 1
            row == [id |-> summary_id, call_id |-> job[p].call_id,
                    transcript_id |-> job[p].transcript_id]
        IN  /\ job' = [job EXCEPT ![p] = [@ EXCEPT !.pc = "done", !.fault = fault]]
            /\ IF answer # "text"
               THEN /\ fault = "none"
                    /\ job_out' = [job_out EXCEPT ![p] =
                                      JobError(429, "Gemini API error")]
                    /\ UNCHANGED <<calls, ai_summaries>>
               ELSE IF fault = "insert"
               THEN /\ job_out' = [job_out EXCEPT ![p] =
                                      JobError(500, "Internal server error")]
                    /\ UNCHANGED <<calls, ai_summaries>>
               ELSE IF fault = "update"
               THEN /\ ai_summaries' = RollbackFailedCommand(ai_summaries,
                                           Append(ai_summaries, row))
                    /\ job_out' = [job_out EXCEPT ![p] =
                                      JobError(500, "Internal server error")]
                    /\ UNCHANGED calls
               ELSE /\ ai_summaries' = Append(ai_summaries, row)
                    /\ calls' = SetSummary(calls, job[p].call_id, summary_id)
                    /\ job_out' = [job_out EXCEPT ![p] = JobOk(summary_id, FALSE)]
    /\ UNCHANGED <<transcripts, customers>>
    /\ PipeFrame

\* record_call in two server processes on one database (uvicorn workers, or
\* two instances of the service).  Inside one process nothing runs between
\* the SELECT and the INSERT of get_or_create_customer, which has no await;
\* another process can run between them.
\* lines 483-490 and 316-320: the recording check and the SELECT
CustomerQuery(p) ==
    /\ job[p].pc = "idle"
    /\ Len(calls) + InFlight("customer") + InFlight("recording") < MaxCustCalls
    /\ \E uid \in BackendUids, phone \in Phones, audio_url \in AudioUrls :
        LET i == FindCustomer(customers, phone, uid)
            j == [NoJob EXCEPT !.op = "record", !.uid = uid, !.phone = phone,
                               !.audio_url = audio_url]
        IN  IF ~RecordingEnabled[uid]
            THEN /\ job' = [job EXCEPT ![p] = [j EXCEPT !.pc = "done"]]
                 /\ job_out' = [job_out EXCEPT ![p] =
                                   JobError(403, "Call recording not enabled")]
            ELSE /\ job' = [job EXCEPT ![p] =
                        [j EXCEPT !.pc = "customer",
                                  !.customer_id =
                                      IF i # 0 THEN customers[i].id ELSE NoId]]
                 /\ UNCHANGED job_out
    /\ UNCHANGED <<calls, transcripts, ai_summaries, customers>>
    /\ PipeFrame

\* lines 319-333 and 493-548: the customer found is returned, else a new one
\* is inserted; record_call goes on to the file, or to the insert of the call
CustomerInsert(p) ==
    /\ job[p].pc = "customer"
    /\ LET found == job[p].customer_id # NoId
           customer_id == IF found THEN job[p].customer_id ELSE Len(customers) + 1
       IN  /\ customers' =
                  IF found THEN customers
                  ELSE Append(customers, [id |-> customer_id,
                                          phone_number |-> job[p].phone,
                                          employee_id |-> job[p].uid])
           /\ IF job[p].audio_url # "none"
              THEN /\ job' = [job EXCEPT ![p] = [@ EXCEPT !.pc = "recording",
                                                        !.customer_id = customer_id]]
                   /\ UNCHANGED <<calls, job_out>>
              ELSE /\ job' = [job EXCEPT ![p] = [@ EXCEPT !.pc = "done",
                                                        !.customer_id = customer_id,
                                                        !.call_id = Len(calls) + 1]]
                   /\ calls' = Append(calls, NewCall(Len(calls) + 1, job[p].uid,
                                                     customer_id, job[p].audio_url))
                   /\ job_out' = [job_out EXCEPT ![p] = JobOk(Len(calls) + 1, FALSE)]
    /\ UNCHANGED <<transcripts, ai_summaries>>
    /\ PipeFrame

\* the answer leaves; the handler is free for the next request
JobRespond(p) ==
    /\ job[p].pc = "done"
    /\ job' = [job EXCEPT ![p] = NoJob]
    /\ job_out' = [job_out EXCEPT ![p] = NoJobOut]
    /\ UNCHANGED <<calls, transcripts, ai_summaries, customers>>
    /\ PipeFrame

-----------------------------------------------------------------------------
(* routes/ai.py: chat_with_gemini *)

FALLBACK_MODELS ==
    <<"gemini-2.0-flash", "gemini-2.0-flash-lite", "gemini-1.5-flash-latest",
      "gemini-1.5-flash", "gemini-1.5-pro-latest", "gemini-1.5-pro">>

API_VERSIONS == <<"v1", "v1beta">>

\* the fallback models the model keeps
Fallbacks == SubSeq(FALLBACK_MODELS, 1, Min(MaxFallbacks, Len(FALLBACK_MODELS)))

\* model_candidates = [m for m in [preferred_model, ...] if m]
ModelCandidates(preferred_model) ==
    SelectSeq(<<preferred_model>> \o Fallbacks,
              LAMBDA m : m # NoneAtom /\ m # "")

\* a plausible slip: the key is not trimmed
UntrimmedKey(raw) == OrNone(OrEmpty(raw))

\* (payload.apiKey or '').strip() or None, and the same for the server's key
TrimmedKey(raw) == OrNone(Strip(OrEmpty(raw)))

\* key_sequence: the caller's key if any, then the server's if any and different
KeySequence(client_key, server_key) ==
    (IF client_key # None
     THEN <<[label |-> "client", key |-> client_key]>> ELSE <<>>)
    \o
    (IF server_key # None /\ server_key # client_key
     THEN <<[label |-> "server", key |-> server_key]>> ELSE <<>>)

\* What the provider may answer to one request.  exc: client.post raised;
\* shape: what resp.json() holds; marker: 'API_KEY_INVALID' in resp.text.
\* shape "parts": candidates[0].content.parts is not empty, and completion is
\* parts[0].get("text") (NoText: the part has no "text").
\* text: str(e) of the exception, else resp.text.
OkText == [id |-> "completion", len |-> 5]
EmptyText == [id |-> "", len |-> 0]
NoResponse == [exc |-> FALSE, status |-> 0, shape |-> "none", marker |-> FALSE,
               text |-> NoText, completion |-> NoText]
ProviderResponses ==
    {[exc |-> TRUE, status |-> 0, shape |-> "none", marker |-> FALSE, text |-> t,
      completion |-> NoText] :
        t \in {[id |-> "ReadTimeout", len |-> 0], [id |-> "ConnectError", len |-> 30]}}
    \cup
    {[exc |-> FALSE, status |-> 200, shape |-> "parts", marker |-> FALSE,
      text |-> [id |-> "body200", len |-> 120], completion |-> c] :
        c \in {OkText, EmptyText, NoText}}
    \cup
    {[exc |-> FALSE, status |-> 200, shape |-> sh, marker |-> FALSE,
      text |-> [id |-> "body200", len |-> 120], completion |-> NoText] :
        sh \in {"no_candidates", "no_parts", "not_json"}}
    \cup
    {[exc |-> FALSE, status |-> 400, shape |-> "error", marker |-> TRUE,
      text |-> [id |-> "key_invalid", len |-> 250], completion |-> NoText],
     [exc |-> FALSE, status |-> 400, shape |-> "error", marker |-> FALSE,
      text |-> [id |-> "bad_request", len |-> 100], completion |-> NoText],
     [exc |-> FALSE, status |-> 403, shape |-> "error", marker |-> TRUE,
      text |-> [id |-> "forbidden", len |-> 250], completion |-> NoText],
     [exc |-> FALSE, status |-> 404, shape |-> "error", marker |-> FALSE,
      text |-> [id |-> "not_found", len |-> 450], completion |-> NoText]}

\* the 200 branch reaches "return ChatResponse(reply=text)"
Returns(r) == ~r.exc /\ r.status = 200 /\ r.shape = "parts"
\* text = parts[0].get("text") or ""
ExtractText(r) == IF Truthy(r.completion) THEN r.completion ELSE EmptyText
\* resp.json() or the digging into it raised
ParseError(r) == ~r.exc /\ r.status = 200 /\ r.shape = "not_json"
\* resp.status_code == 400 and 'API_KEY_INVALID' in resp.text
KeyInvalid(r) == ~r.exc /\ r.status = 400 /\ r.marker

\* ghost: what the provider's answer was, for the log of requests
Outcome(r) ==
    IF ~r.exc /\ r.status = 200 /\ r.shape = "parts" THEN "success"
    ELSE IF ~r.exc /\ r.status = 400 /\ r.marker THEN "invalid"
    ELSE "failed"

\* a plausible slip: a 200 answer is recorded and the loops go on
FlowNoReturn(r) ==
    IF r.exc \/ r.status = 200 THEN "continue"
    ELSE (IF KeyInvalid(r) THEN "break" ELSE "continue")

\* how the body of the innermost loop ends for response r
Flow(r) ==
    IF r.exc THEN "continue"
    ELSE IF r.status = 200
         THEN (IF Returns(r) THEN "return" ELSE "continue")
         ELSE (IF KeyInvalid(r) THEN "break" ELSE "continue")

\* the body calls _record_error for r
Records(r) == r.exc \/ ParseError(r) \/ (~r.exc /\ r.status # 200)

\* last_error_text after the body ran for r
LastErrorAfter(old, r) ==
    IF r.exc \/ (~r.exc /\ r.status # 200) THEN r.text ELSE old

Exhausted == [k |-> 0, v |-> 0, m |-> 0]

\* the middle loop moves on: the next version, else the next key
NextVersion(p, nKeys) ==
    IF p.v < Len(API_VERSIONS) THEN [k |-> p.k, v |-> p.v + 1, m |-> 1]
    ELSE IF p.k < nKeys THEN [k |-> p.k + 1, v |-> 1, m |-> 1]
    ELSE Exhausted

\* a plausible slip: the version loop nested inside the model loop
AfterContinueVersionInner(p, nKeys, nModels) ==
    IF p.v < Len(API_VERSIONS) THEN [k |-> p.k, v |-> p.v + 1, m |-> p.m]
    ELSE IF p.m < nModels THEN [k |-> p.k, v |-> 1, m |-> p.m + 1]
    ELSE IF p.k < nKeys THEN [k |-> p.k + 1, v |-> 1, m |-> 1]
    ELSE Exhausted

\* a plausible slip: after the last model the same version starts over
AfterContinueRestart(p, nKeys, nModels) ==
    IF p.m < nModels THEN [k |-> p.k, v |-> p.v, m |-> p.m + 1]
    ELSE [k |-> p.k, v |-> p.v, m |-> 1]

\* "continue" in the innermost loop
AfterContinue(p, nKeys, nModels) ==
    IF p.m < nModels THEN [k |-> p.k, v |-> p.v, m |-> p.m + 1]
    ELSE NextVersion(p, nKeys)

\* "break" leaves the innermost (model) loop only; the version loop goes on
AfterBreak(p, nKeys, nModels) == NextVersion(p, nKeys)

APOLOGY == [id |-> "apology", len |-> 115]
DIAGNOSTIC_HEADER == [id |-> "diagnostic_header", len |-> 15]

\* the reply built after the loops
ExhaustedReply(let) ==
    <<APOLOGY>> \o
    (IF Truthy(let) THEN <<DIAGNOSTIC_HEADER, Prefix(let, DIAGNOSTIC_MAXLEN)>>
     ELSE <<>>)

ApiKeyChoices == {None, <<" ">>, <<"A">>, <<" ", "B", " ">>}
ServerKeyChoices == {<<>>, <<"B">>}
\* GEMINI_MODEL: unset, empty, a model of its own, or one of the fixed list
PreferredChoices == {NoneAtom, "", "gemini-exp", "gemini-2.0-flash"}

InitConf ==
    /\ gemini_api_key \in ServerKeyChoices
    /\ GEMINI_MODEL \in PreferredChoices

InitDiag ==
    /\ AI_ERRORS = <<>>
    /\ AI_EVENTS = <<>>
    /\ nErrors = 0
    /\ nEvents = 0

InitChatVars ==
    /\ chat_pc = "idle"
    /\ apiKey = None
    /\ key_sequence = <<>>
    /\ model_candidates = <<>>
    /\ pos = Exhausted
    /\ resp = NoResponse
    /\ last_error_text = NoText
    /\ attempts = <<>>
    /\ http_status = 0
    /\ reply = <<>>

\* lines 47-98: the request arrives, the keys and candidates are built
ChatStart ==
    /\ chat_pc = "idle"
    /\ \E raw \in ApiKeyChoices :
        LET client_key == TrimmedKey(raw)
            server_key == TrimmedKey(gemini_api_key)
        IN  /\ apiKey' = raw
            /\ AI_EVENTS' = RecordEvent(AI_EVENTS, nEvents + 1,
                                        "chat_request_received", "request")
            /\ nEvents' = nEvents + 1
            /\ IF server_key = None /\ client_key = None
               THEN /\ chat_pc' = "done"
                    /\ http_status' = 500
                    /\ UNCHANGED <<key_sequence, model_candidates, pos>>
               ELSE /\ chat_pc' = "loop"
                    /\ key_sequence' = KeySequence(client_key, server_key)
                    /\ model_candidates' = ModelCandidates(GEMINI_MODEL)
                    /\ pos' = [k |-> 1, v |-> 1, m |-> 1]
                    /\ UNCHANGED http_status
    /\ UNCHANGED <<AI_ERRORS, nErrors, resp, last_error_text, attempts, reply>>
    /\ UNCHANGED <<confVars, authVars, tokVars, extVars>>

\* lines 104-149: one request to the provider, the handling of its response,
\* and, when that ends the loops, the answer to the caller
ChatAttempt ==
    /\ chat_pc = "loop"
    /\ \E r \in ProviderResponses :
        LET key == key_sequence[pos.k]
            api_version == API_VERSIONS[pos.v]
            model == model_candidates[pos.m]
            flow == Flow(r)
            let == LastErrorAfter(last_error_text, r)
            nxt == IF flow = "break"
                   THEN AfterBreak(pos, Len(key_sequence), Len(model_candidates))
                   ELSE AfterContinue(pos, Len(key_sequence), Len(model_candidates))
        IN  /\ resp' = r
            /\ attempts' = Append(attempts,
                  [key |-> key.key, api_version |-> api_version, model |-> model,
                   outcome |-> Outcome(r), at |-> pos])
            /\ last_error_text' = let
            /\ IF Records(r)
               THEN /\ AI_ERRORS' = RecordError(AI_ERRORS, nErrors + 1, key.label,
                                                api_version, model)
                    /\ nErrors' = nErrors + 1
               ELSE UNCHANGED <<AI_ERRORS, nErrors>>
            /\ IF flow = "return"
               THEN /\ AI_EVENTS' = RecordEvent(AI_EVENTS, nEvents + 1, "chat_success",
                                                <<model, api_version>>)
                    /\ nEvents' = nEvents + 1
                    /\ reply' = <<ExtractText(r)>>
                    /\ http_status' = 200
                    /\ chat_pc' = "done"
                    /\ UNCHANGED pos
               ELSE /\ UNCHANGED <<AI_EVENTS, nEvents>>
                    /\ IF nxt = Exhausted
                       THEN /\ reply' = ExhaustedReply(let)
                            /\ http_status' = 200
                            /\ chat_pc' = "done"
                            /\ UNCHANGED pos
                       ELSE /\ pos' = nxt
                            /\ UNCHANGED <<reply, http_status, chat_pc>>
    /\ UNCHANGED <<apiKey, key_sequence, model_candidates>>
    /\ UNCHANGED <<confVars, authVars, tokVars, extVars>>

-----------------------------------------------------------------------------
(* routes/ai.py: several chat_with_gemini calls on one event loop.  A handler *)
(* runs without interruption from one await to the next; the only await of  *)
(* chat_with_gemini is client.post (line 107).                               *)

\* the keys the concurrent callers send
ConcKeyChoices == {None, <<"A">>}

\* the provider's answers, one for each way the loop body can end
ConcResponses ==
    {r \in ProviderResponses :
        \/ r.exc /\ r.text.id = "ReadTimeout"
        \/ r.status = 200 /\ r.shape = "parts" /\ r.completion = OkText
        \/ r.status = 200 /\ r.shape = "no_candidates"
        \/ KeyInvalid(r)}

NoChat == [pc |-> "idle", key_sequence |-> <<>>, pos |-> Exhausted]

\* how many entries earlier requests may have left in each buffer
Earlier == AI_MAXLEN - 2

\* the buffers after n earlier calls of _record_error and n of _record_event
EarlierErrors(n) ==
    [i \in 1..n |-> ErrorEntry(n - i + 1, "server", "v1", FALLBACK_MODELS[1])]
EarlierEvents(n) ==
    [i \in 1..n |->
        [seq |-> n - i + 1, event |-> "chat_request_received", detail |-> "request"]]

\* no protected request yet, no token held
NoSession ==
    [endpoint |-> "none", company_id |-> None, status |-> 0, detail |-> "",
     user |-> 0, listed |-> <<>>]

InitSessVars ==
    /\ session = NoSession
    /\ since = {}

InitConcVars ==
    /\ chats = [p \in Procs |-> NoChat]
    /\ conc_requests = 0

ConcFrame ==
    UNCHANGED <<confVars, chatVars, authVars, tokVars, bootVars, callVars, pipeVars,
                sessVars>>

\* lines 47-107: the request arrives, the event is recorded, the keys are
\* built and the first request is sent
ConcStart(p) ==
    /\ chats[p].pc = "idle"
    /\ \E raw \in ConcKeyChoices :
        LET client_key == TrimmedKey(raw)
            server_key == TrimmedKey(gemini_api_key)
        IN  /\ AI_EVENTS' = RecordEvent(AI_EVENTS, nEvents + 1,
                                        "chat_request_received", "request")
            /\ nEvents' = nEvents + 1
            /\ chats' = [chats EXCEPT ![p] =
                  IF server_key = None /\ client_key = None
                  THEN [NoChat EXCEPT !.pc = "done"]
                  ELSE [pc |-> "await",
                        key_sequence |-> KeySequence(client_key, server_key),
                        pos |-> [k |-> 1, v |-> 1, m |-> 1]]]
    /\ UNCHANGED <<AI_ERRORS, nErrors, conc_requests>>
    /\ ConcFrame

\* lines 107-138: client.post returns or raises, the handler deals with the
\* response and sends the next request or answers
ConcResume(p) ==
    /\ chats[p].pc = "await"
    /\ conc_requests < MaxConcRequests
    /\ \E r \in ConcResponses :
        LET c == chats[p]
            candidates == ModelCandidates(GEMINI_MODEL)
            key == c.key_sequence[c.pos.k]
            api_version == API_VERSIONS[c.pos.v]
            model == candidates[c.pos.m]
            flow == Flow(r)
            nxt == IF flow = "break"
                   THEN AfterBreak(c.pos, Len(c.key_sequence), Len(candidates))
                   ELSE AfterContinue(c.pos, Len(c.key_sequence), Len(candidates))
        IN  /\ IF Records(r)
               THEN /\ AI_ERRORS' = RecordError(AI_ERRORS, nErrors + 1, key.label,
                                                api_version, model)
                    /\ nErrors' = nErrors + 1
               ELSE UNCHANGED <<AI_ERRORS, nErrors>>
            /\ IF flow = "return"
               THEN /\ AI_EVENTS' = RecordEvent(AI_EVENTS, nEvents + 1, "chat_success",
                                                <<model, api_version>>)
                    /\ nEvents' = nEvents + 1
                    /\ chats' = [chats EXCEPT ![p].pc = "done"]
               ELSE /\ UNCHANGED <<AI_EVENTS, nEvents>>
                    /\ chats' = [chats EXCEPT ![p] =
                          IF nxt = Exhausted
                          THEN [c EXCEPT !.pc = "done"]
                          ELSE [c EXCEPT !.pos = nxt]]
    /\ conc_requests' = conc_requests + 1
    /\ ConcFrame

InitChat ==
    /\ InitConf /\ InitDiag /\ InitChatVars /\ InitAuthVars /\ InitTokVars
    /\ InitBootVars /\ InitCallVars /\ InitPipeVars /\ InitConcVars
    /\ InitSessVars
NextChat == ChatStart \/ ChatAttempt
SpecChat == InitChat /\ [][NextChat]_vars

-----------------------------------------------------------------------------
(* routes/auth.py: concurrent signup, login and google-sync requests *)

InitAuth ==
    /\ gemini_api_key = <<>> /\ GEMINI_MODEL = NoneAtom
    /\ InitDiag /\ InitChatVars /\ InitTokVars
    /\ InitBootVars /\ InitCallVars /\ InitPipeVars /\ InitConcVars
    /\ InitSessVars
    /\ users \in InitialTables
    /\ initial_users = users
    /\ pc = [p \in Procs |-> "idle"]
    /\ req = [p \in Procs |-> NoReq]
    /\ loc = [p \in Procs |-> NoLoc]
    /\ out = [p \in Procs |-> NoOut]

NextAuth ==
    \E p \in Procs :
        \/ SignupQuery(p)
        \/ SignupCommit(p)
        \/ SyncQuery(p)
        \/ SyncCommit(p)
        \/ LoginQuery(p)
        \/ LoginCommit(p)
        \/ Respond(p)
SpecAuth == InitAuth /\ [][NextAuth]_vars

-----------------------------------------------------------------------------
(* routes/ai.py: the diagnostics buffers under arbitrary call sequences *)

\* some caller calls _record_error
DiagRecordError ==
    /\ nErrors < MaxDiagCalls
    /\ AI_ERRORS' = RecordError(AI_ERRORS, nErrors + 1, "client", "v1",
                                FALLBACK_MODELS[1])
    /\ nErrors' = nErrors + 1
    /\ UNCHANGED <<AI_EVENTS, nEvents, chatVars, confVars, authVars, tokVars,
                   extVars>>

\* some caller calls _record_event
DiagRecordEvent ==
    /\ nEvents < MaxDiagCalls
    /\ AI_EVENTS' = RecordEvent(AI_EVENTS, nEvents + 1, "chat_request_received",
                                "request")
    /\ nEvents' = nEvents + 1
    /\ UNCHANGED <<AI_ERRORS, nErrors, chatVars, confVars, authVars, tokVars,
                   extVars>>

NextDiag == DiagRecordError \/ DiagRecordEvent
SpecDiag == InitChat /\ [][NextDiag]_vars

-----------------------------------------------------------------------------
(* Properties of the chat gateway *)

\* the reference order of the candidates: credential, then version, then model
RefCredentials ==
    LET c == Strip(OrEmpty(apiKey))
        s == Strip(gemini_api_key)
    IN  (IF c # <<>> THEN <<c>> ELSE <<>>) \o
        (IF s # <<>> /\ s # c THEN <<s>> ELSE <<>>)
RefModels ==
    (IF GEMINI_MODEL \in {NoneAtom, ""} THEN <<>> ELSE <<GEMINI_MODEL>>) \o Fallbacks
RefOrder ==
    LET nV == Len(API_VERSIONS)
        nM == Len(RefModels)
    IN  [i \in 1..(Len(RefCredentials) * nV * nM) |->
            [key |-> RefCredentials[((i - 1) \div (nV * nM)) + 1],
             api_version |-> API_VERSIONS[(((i - 1) \div nM) % nV) + 1],
             model |-> RefModels[((i - 1) % nM) + 1]]]
Triple(a) == [key |-> a.key, api_version |-> a.api_version, model |-> a.model]
NoneInvalid == \A i \in 1..Len(attempts) : attempts[i].outcome # "invalid"
AllFailed == \A i \in 1..Len(attempts) : attempts[i].outcome # "success"
Answered == chat_pc = "done" /\ http_status = 200

\* C1: while no request has met the invalid-credential signal, the requests
\* issued so far are exactly the first ones of the nested order credential ->
\* API version -> model, one per combination, and when all of them failed the
\* handler answers only after the whole order was tried.
C1_NestedOrder ==
    (chat_pc # "idle" /\ NoneInvalid) =>
        /\ Len(attempts) <= Len(RefOrder)
        /\ \A i \in 1..Len(attempts) : Triple(attempts[i]) = RefOrder[i]
        /\ (Answered /\ AllFailed) => Len(attempts) = Len(RefOrder)

\* caller key A, server key B, a preferred model, every request failed
C1_Witness ==
    /\ Answered /\ AllFailed /\ NoneInvalid
    /\ Len(key_sequence) = 2
    /\ GEMINI_MODEL = "gemini-exp"
    /\ Len(attempts) = 2 * 2 * Len(model_candidates)

\* C2: a request that yields a 200 response with a completion text is the last
\* request of the call, and the reply is that text.
C2_StopAtFirstSuccess ==
    \A i \in 1..Len(attempts) :
        attempts[i].outcome = "success" =>
            /\ i = Len(attempts)
            /\ Answered
            /\ Truthy(resp.completion) => reply = <<resp.completion>>

\* a success with remaining candidates untried
C2_Witness ==
    /\ Answered
    /\ Len(attempts) >= 2
    /\ attempts[Len(attempts)].outcome = "success"
    /\ Len(attempts) < Len(RefOrder)
    /\ reply = <<OkText>>

\* C3: after a request with some credential met the invalid-credential
\* signal, no later request uses that credential.
C3_InvalidKeyAbandoned ==
    \A i, j \in 1..Len(attempts) :
        (i < j /\ attempts[i].outcome = "invalid") => attempts[j].key # attempts[i].key

\* C5: when every attempted candidate failed, the reply is the apology followed
\* by the first 400 characters of the last error.
C5_ExhaustedReplyHasDiagnostic ==
    (Answered /\ AllFailed) =>
        /\ Len(reply) = 3
        /\ reply[1] = APOLOGY
        /\ reply[3].len > 0
        /\ reply[3] = Prefix(resp.text, DIAGNOSTIC_MAXLEN)

-----------------------------------------------------------------------------
(* Properties of the diagnostics buffers *)

\* the entries of buf are the latest min(n, 50) of n calls, newest first
LatestFirst(buf, n) ==
    /\ Len(buf) = Min(n, AI_MAXLEN)
    /\ \A i \in 1..Len(buf) : buf[i].seq = n - i + 1

\* C4: each buffer holds at most 50 entries, newest first, and they are the
\* latest ones: a call on a full buffer evicts the oldest entry only.
C4_BoundedNewestFirst ==
    /\ Len(AI_ERRORS) <= AI_MAXLEN
    /\ Len(AI_EVENTS) <= AI_MAXLEN
    /\ LatestFirst(AI_ERRORS, nErrors)
    /\ LatestFirst(AI_EVENTS, nEvents)

\* both buffers have evicted entries
C4_Witness ==
    /\ nErrors > AI_MAXLEN /\ Len(AI_ERRORS) = AI_MAXLEN
    /\ nEvents > AI_MAXLEN /\ Len(AI_EVENTS) = AI_MAXLEN

-----------------------------------------------------------------------------
(* auth.py: a session token over time *)

TokFrame == UNCHANGED <<confVars, diagVars, chatVars, authVars, extVars>>

\* signup, login or google-sync issues a token for user sub
TokIssue ==
    /\ now <= MaxIssueTime
    /\ \E sub \in {1, 2} : token' = CreateAccessToken(sub, now)
    /\ verified' = NotVerified
    /\ UNCHANGED now
    /\ TokFrame

\* somebody signs a token with a secret of their own
TokForge ==
    /\ now <= MaxIssueTime
    /\ \E sub \in {1, 2} :
        token' = [CreateAccessToken(sub, now) EXCEPT !.sig = "other-secret"]
    /\ verified' = NotVerified
    /\ UNCHANGED now
    /\ TokFrame

\* a second passes
TokTick ==
    /\ \/ now < MaxIssueTime
       \/ token # NoToken /\ now >= token.exp - MaxSlack /\ now < token.exp + MaxSlack
    /\ now' = now + 1
    /\ verified' = NotVerified
    /\ UNCHANGED token
    /\ TokFrame

\* time passes until shortly before the token expires
TokSleep ==
    /\ token # NoToken
    /\ now < token.exp - MaxSlack
    /\ now' = token.exp - MaxSlack
    /\ verified' = NotVerified
    /\ UNCHANGED token
    /\ TokFrame

\* the token is presented: verify_token(token)
TokVerify ==
    /\ token # NoToken
    /\ verified' = VerifyToken(token, now)
    /\ UNCHANGED <<now, token>>
    /\ TokFrame

NextTok == TokIssue \/ TokForge \/ TokTick \/ TokSleep \/ TokVerify
SpecTok == InitChat /\ [][NextTok]_vars

-----------------------------------------------------------------------------
(* main.py, database.py: the server is started, stopped and started again *)

InitBoot ==
    /\ gemini_api_key = <<>> /\ GEMINI_MODEL = NoneAtom
    /\ InitDiag /\ InitChatVars /\ InitAuthVars /\ InitTokVars
    /\ InitCallVars /\ InitPipeVars /\ InitConcVars
    /\ InitSessVars
    /\ schema \in InitialSchemas
    /\ boot_pc = "down"
    /\ db_connected = FALSE
    /\ conn_test = "none"
    /\ last_run = NoRun
    /\ boot_log = {}
    /\ boots = 0

NextBoot == BootStart \/ BootReconcile \/ BootCreateAll \/ ServeInsert \/ Shutdown
\* the startup is not interrupted: a started lifespan runs to its yield
SpecBoot == InitBoot /\ [][NextBoot]_vars /\ WF_vars(NextBoot)

-----------------------------------------------------------------------------
(* routes/calls.py: requests of authenticated users, one after another *)

InitCalls ==
    /\ gemini_api_key = <<>> /\ GEMINI_MODEL = NoneAtom
    /\ InitDiag /\ InitChatVars /\ InitTokVars
    /\ InitBootVars /\ InitCallVars /\ InitPipeVars /\ InitConcVars
    /\ InitSessVars
    /\ users = CallUsers
    /\ initial_users = users
    /\ pc = [p \in Procs |-> "idle"]
    /\ req = [p \in Procs |-> NoReq]
    /\ loc = [p \in Procs |-> NoLoc]
    /\ out = [p \in Procs |-> NoOut]

NextCalls ==
    \/ UploadCallRecording
    \/ GetCallRecords
    \/ GetCallRecord
    \/ GetCallAudio
    \/ DeleteCallRecord
SpecCalls == InitCalls /\ [][NextCalls]_vars

-----------------------------------------------------------------------------
(* src/backend/main.py: concurrent record, transcribe and summary requests *)

NextPipe ==
    \E p \in Procs :
        \/ RecordStart(p)
        \/ RecordFinish(p)
        \/ TranscribeStart(p)
        \/ TranscribeFinish(p)
        \/ SummaryStart(p)
        \/ SummaryFinish(p)
        \/ JobRespond(p)
SpecPipe == InitChat /\ [][NextPipe]_vars

-----------------------------------------------------------------------------
(* routes/ai.py: concurrent chat requests on buffers that earlier requests *)
(* may have filled almost to capacity                                       *)

InitConc ==
    /\ gemini_api_key = <<"B">> /\ GEMINI_MODEL = NoneAtom
    /\ InitChatVars /\ InitAuthVars /\ InitTokVars
    /\ InitBootVars /\ InitCallVars /\ InitPipeVars /\ InitConcVars
    /\ InitSessVars
    /\ \E n \in {0, Earlier} :
        /\ nErrors = n /\ AI_ERRORS = EarlierErrors(n)
        /\ nEvents = n /\ AI_EVENTS = EarlierEvents(n)

NextConc == \E p \in Procs : ConcStart(p) \/ ConcResume(p)
SpecConc == InitConc /\ [][NextConc]_vars

\* the same requests handled one at a time
NextPipeSeq ==
    \/ RecordStart("h1")
    \/ RecordFinish("h1")
    \/ TranscribeStart("h1")
    \/ TranscribeFinish("h1")
    \/ SummaryStart("h1")
    \/ SummaryFinish("h1")
    \/ JobRespond("h1")
SpecPipeSeq == InitChat /\ [][NextPipeSeq]_vars

\* record_call requests in two server processes
NextCust ==
    \E p \in Procs :
        \/ CustomerQuery(p)
        \/ CustomerInsert(p)
        \/ RecordFinish(p)
        \/ JobRespond(p)
SpecCust == InitChat /\ [][NextCust]_vars

-----------------------------------------------------------------------------
(* auth.py, routes/auth.py: one client's session against the users table *)

\* who signs up, who logs in or syncs
SignupEmails == {<<"d", "@", "x">>}
SessEmails == {<<"a", "@", "x">>, <<"b", "@", "x">>}
SessCompanies == {None, <<"c">>}
\* the company_id query parameter of GET /auth/employees
CompanyParams == {None, <<>>, <<"c">>, S_default_company}

SessFrame ==
    UNCHANGED <<confVars, diagVars, chatVars, bootVars, callVars, pipeVars,
                concVars, initial_users, pc, req, loc, out, verified>>

\* the token of the session that is followed is the first one issued; the
\* tokens issued after it belong to other sessions
Issued(tok, op) ==
    IF token = NoToken
    THEN token' = tok /\ since' = {}
    ELSE token' = token /\ since' = since \cup {op}

\* q.filter(func.lower(User.role) == 'employee', User.is_active == True) and,
\* if company_id:, q.filter(User.company_id == company_id)
GetCompanyEmployees(tbl, company_id) ==
    LET Wanted(u) ==
            /\ Lower(u.role) = S_employee
            /\ u.is_active
            /\ (OrEmpty(company_id) # <<>>) => u.company_id = company_id
    IN  SelectSeq(tbl, Wanted)

\* POST /auth/signup of a new address, answered with a token
SessSignup ==
    /\ now <= MaxIssueTime
    /\ Len(users) < MaxSessUsers
    /\ \E em \in SignupEmails, ro \in RawRoles, co \in SessCompanies :
        /\ FindByTrimLowerEmail(users, NormalizeEmail(em)) = 0
        /\ ~UniqueViolation(users, NormalizeEmail(em))
        /\ users' = Insert(users, NewUser(em, "pw1", RawName, ro, co))
        /\ Issued(CreateAccessToken(users'[Len(users')].id, now), "signup")
    /\ session' = NoSession
    /\ UNCHANGED now
    /\ SessFrame

\* POST /auth/login with the right password of an active account
SessLogin ==
    /\ now <= MaxIssueTime
    /\ \E em \in SessEmails \cup SignupEmails, pw \in Passwords :
        LET i == FindByLowerEmail(users, Lower(Strip(OrEmpty(em))))
        IN  /\ i # 0
            /\ ~UnknownHash(users[i].hashed_password)
            /\ VerifyPassword(pw, users[i].hashed_password)
            /\ users[i].is_active
            /\ users' = [users EXCEPT ![i] = [@ EXCEPT !.role = LoginRole(users[i])]]
            /\ Issued(CreateAccessToken(users[i].id, now), "login")
    /\ session' = NoSession
    /\ UNCHANGED now
    /\ SessFrame

\* POST /auth/google-sync
SessSync ==
    /\ now <= MaxIssueTime
    /\ \E em \in SessEmails, ro \in RawRoles :
        LET i == FindByTrimLowerEmail(users, NormalizeEmail(em))
            row == NewUser(em, FirebaseUid, RawName, ro, RawCompany)
        IN  IF i # 0
            THEN /\ users' = [users EXCEPT ![i] = Flush(@, @, row)]
                 /\ Issued(CreateAccessToken(users[i].id, now), "google-sync")
            ELSE /\ Len(users) < MaxSessUsers
                 /\ ~UniqueViolation(users, row.email)
                 /\ users' = Insert(users, row)
                 /\ Issued(CreateAccessToken(users'[Len(users')].id, now),
                           "google-sync")
    /\ session' = NoSession
    /\ UNCHANGED now
    /\ SessFrame

\* POST /auth/logout: a message, nothing else
SessLogout ==
    /\ token # NoToken
    /\ "logout" \notin since
    /\ since' = since \cup {"logout"}
    /\ session' = NoSession
    /\ UNCHANGED <<users, token, now>>
    /\ SessFrame

\* is_active is cleared in the database by hand: no route does it
SessDeactivate ==
    /\ token # NoToken
    /\ \E i \in 1..Len(users) :
        /\ users[i].is_active
        /\ users' = [users EXCEPT ![i] = [@ EXCEPT !.is_active = FALSE]]
    /\ since' = since \cup {"deactivate"}
    /\ session' = NoSession
    /\ UNCHANGED <<token, now>>
    /\ SessFrame

\* a token that this server did not issue, signed with its secret: for an id
\* that is not in the table, or without a subject
SessForeign ==
    /\ now <= MaxIssueTime
    /\ token = NoToken
    /\ \E sub \in {NoSub, MaxSessUsers + 1} :
        token' = CreateAccessToken(sub, now)
    /\ since' = {}
    /\ session' = NoSession
    /\ UNCHANGED <<users, now>>
    /\ SessFrame

\* a second passes
SessTick ==
    /\ \/ now < MaxIssueTime
       \/ token # NoToken /\ now >= token.exp - MaxSlack /\ now < token.exp + MaxSlack
    /\ now' = now + 1
    /\ session' = NoSession
    /\ UNCHANGED <<users, token, since>>
    /\ SessFrame

\* time passes until shortly before the token expires
SessSleep ==
    /\ token # NoToken
    /\ now < token.exp - MaxSlack
    /\ now' = token.exp - MaxSlack
    /\ session' = NoSession
    /\ UNCHANGED <<users, token, since>>
    /\ SessFrame

\* GET /auth/me with the bearer token
SessMe ==
    /\ token # NoToken
    /\ LET current == GetCurrentUser(token, users, now)
       IN  session' = [endpoint |-> "me", company_id |-> None,
                       status |-> current.status, detail |-> current.detail,
                       user |-> current.user, listed |-> <<>>]
    /\ UNCHANGED <<users, token, since, now>>
    /\ SessFrame

\* GET /auth/employees with the bearer token
SessEmployees ==
    /\ token # NoToken
    /\ \E company_id \in CompanyParams :
        LET current == GetCurrentAdminUser(GetCurrentUser(token, users, now), users)
        IN  session' = [endpoint |-> "employees", company_id |-> company_id,
                        status |-> current.status, detail |-> current.detail,
                        user |-> current.user,
                        listed |-> IF current.status = 200
                                   THEN GetCompanyEmployees(users, company_id)
                                   ELSE <<>>]
    /\ UNCHANGED <<users, token, since, now>>
    /\ SessFrame

\* a token over time: the clock, logins, syncs, logouts and deactivations of
\* the accounts there are, and GET /auth/me
NextSess ==
    \/ SessLogin \/ SessSync \/ SessLogout \/ SessDeactivate
    \/ SessForeign \/ SessTick \/ SessSleep \/ SessMe
SpecSess == InitAuth /\ [][NextSess]_vars

\* the admin gate: accounts come and change within one second, and the
\* session asks for the employees
NextAdmin ==
    \/ SessSignup \/ SessLogin \/ SessSync \/ SessDeactivate
    \/ SessForeign \/ SessEmployees
SpecAdmin == InitAuth /\ [][NextAdmin]_vars

-----------------------------------------------------------------------------
(* Properties of signup, login and google-sync *)

\* some row's e-mail equals raw after trimming and lower-casing both
EmailTaken(tbl, raw) ==
    \E i \in 1..Len(tbl) : Lower(Strip(tbl[i].email)) = Lower(Strip(raw))

\* C7: a signup whose e-mail, trimmed and lower-cased, is that of an existing
\* user is answered with 409, issues no token and leaves the table as it is,
\* whether the existing row is met by the existence check or by the insert.
C7_DuplicateSignupConflict ==
    [][\A p \in Procs :
        /\ (pc[p] = "idle" /\ pc'[p] # "idle" /\ req'[p].op = "signup"
            /\ EmailTaken(users, req'[p].email))
           => (pc'[p] = "done" /\ out'[p].status = 409
               /\ out'[p].token = NoToken /\ users' = users)
        /\ (pc[p] = "signup_commit" /\ pc'[p] = "done"
            /\ EmailTaken(users, req[p].email))
           => (out'[p].status = 409 /\ out'[p].token = NoToken /\ users' = users)
      ]_vars

\* a signup of " A@X" refused because a@x is registered
C7_Witness ==
    \E p \in Procs :
        /\ pc[p] = "done" /\ req[p].op = "signup"
        /\ req[p].email = <<" ", "A", "@", "X">>
        /\ out[p].status = 409 /\ out[p].cause = "query"
        /\ \E i \in 1..Len(users) : users[i].email = <<"a", "@", "x">>

\* C8: no two rows have the same e-mail under trimmed, case-insensitive
\* comparison, and of two signups for the same normalized e-mail that are
\* both answered, at most one created a user and then the other got 409.
C8_EmailUnique ==
    /\ \A i, j \in 1..Len(users) :
        i # j => Lower(Strip(users[i].email)) # Lower(Strip(users[j].email))
    /\ \A p, q \in Procs :
        (/\ p # q
         /\ pc[p] = "done" /\ req[p].op = "signup"
         /\ pc[q] = "done" /\ req[q].op = "signup"
         /\ Lower(Strip(req[p].email)) = Lower(Strip(req[q].email))
         /\ out[p].status = 200)
        => out[q].status = 409

\* two racing signups: both passed the existence check, one insert failed
C8_Witness ==
    \E p, q \in Procs :
        /\ p # q
        /\ pc[p] = "done" /\ req[p].op = "signup" /\ out[p].status = 200
        /\ pc[q] = "done" /\ req[q].op = "signup" /\ out[q].status = 409
        /\ out[q].cause = "commit"
        /\ req[p].email # req[q].email

-----------------------------------------------------------------------------
(* Properties of the session token *)

\* C10: verify_token accepts a token of the server at every time before its
\* expiry, returns None at every time at or after it, and returns None for a
\* token signed with another secret.
C10_AcceptedUntilExpiry ==
    verified.called =>
        (verified # Rejected <=> (token.sig = JWT_SECRET /\ now < token.exp))

-----------------------------------------------------------------------------
(* Properties of the call-record routes *)

\* C11: when get_call_record, get_call_audio or delete_call_record is asked
\* for an existing call by a user who is not an admin and not its owner, the
\* answer is 403, no record is returned and the table is left as it is; when
\* asked by an admin, whoever owns the call, it is never 403: get returns the
\* record, audio streams it (404 only when it has no audio), delete removes it.
C11_OwnerOrAdminOnly ==
    [][LET o == call_out'
           i == FindCall(call_records, o.args.call_id)
       IN  (o.op \in {"get", "audio", "delete"} /\ i # 0) =>
            LET user == users[o.user]
                call == call_records[i]
            IN  /\ (user.role # S_admin /\ call.user_id # user.id)
                    => (/\ o.status = 403
                        /\ o.body = <<>>
                        /\ call_records' = call_records)
                /\ user.role = S_admin
                    => (/\ o.status # 403
                        /\ o.op = "get" => (o.status = 200 /\ o.body = <<call>>)
                        /\ o.op = "audio"
                            => IF call.has_audio
                               THEN o.status = 200 /\ o.body = <<call>>
                               ELSE o.status = 404
                        /\ o.op = "delete"
                            => (/\ o.status = 200
                                /\ FindCall(call_records', call.id) = 0
                                /\ Len(call_records') = Len(call_records) - 1))
      ]_vars

\* an employee was refused the deletion of a colleague's call, which is kept
C11_Witness ==
    /\ call_out.op = "delete" /\ call_out.status = 403
    /\ users[call_out.user].role = S_employee
    /\ \E i \in 1..Len(call_records) :
        /\ call_records[i].id = call_out.args.call_id
        /\ call_records[i].user_id # call_out.user

\* C19: the record that upload_call_recording stores and returns has as
\* user_id the id of the authenticated user who sent the request.
C19_OwnedByUploader ==
    (call_out.op = "upload" /\ call_out.status = 200)
        => call_out.body[1].user_id = call_out.user

\* C20: get_call_records answers a user who is not an admin with records of
\* that user only, whatever customer_number and user_id are, and with none
\* when user_id names somebody else; it answers an admin with the records that
\* pass the given filters, up to limit, and with nothing else.
C20_ListOwnOnly ==
    call_out.op = "list" =>
        LET user == users[call_out.user]
            a == call_out.args
            body == call_out.body
            rows == {body[k] : k \in 1..Len(body)}
            wanted == {call_records[i] : i \in
                        {j \in 1..Len(call_records) :
                            /\ a.customer_number \notin {NoneAtom, ""} =>
                                call_records[j].customer_number = a.customer_number
                            /\ a.user_id # NoId =>
                                call_records[j].user_id = a.user_id}}
        IN  /\ call_out.status = 200
            /\ user.role # S_admin =>
                /\ \A r \in rows : r.user_id = user.id
                /\ (a.user_id # NoId /\ a.user_id # user.id) => body = <<>>
            /\ user.role = S_admin =>
                /\ rows \subseteq wanted
                /\ Cardinality(rows) = Len(body)
                /\ Len(body) = Min(a.limit, Cardinality(wanted))

\* an employee asked for a colleague's calls, of which there are some, and got
\* an empty list
C20_Witness ==
    /\ call_out.op = "list" /\ call_out.user = 2 /\ call_out.args.user_id = 3
    /\ call_out.body = <<>>
    /\ \E i, j \in 1..Len(call_records) :
        call_records[i].user_id = 3 /\ call_records[j].user_id = 2

-----------------------------------------------------------------------------
(* Properties of the transcription and summary pipeline *)

\* C17: no call has more than one row in transcripts, nor more than one row
\* in ai_summaries.
C17_OneDerivedRowPerCall ==
    \A c \in 1..Len(calls) :
        /\ Cardinality({i \in 1..Len(transcripts) :
                            transcripts[i].call_id = calls[c].id}) <= 1
        /\ Cardinality({i \in 1..Len(ai_summaries) :
                            ai_summaries[i].call_id = calls[c].id}) <= 1

\* the order of the life cycle
Lifecycle == <<CS_recording, CS_completed, CS_transcribing, CS_analyzed>>
InLifecycle(st) == \E k \in 1..Len(Lifecycle) : Lifecycle[k] = st
Rank(st) == CHOOSE k \in 1..Len(Lifecycle) : Lifecycle[k] = st
\* a status may stay, move forward along the order, or become failed
ForwardOrFailed(a, b) ==
    \/ b = CS_failed
    \/ InLifecycle(a) /\ InLifecycle(b) /\ Rank(a) <= Rank(b)

\* C18: the status of a call, in calls and in call_records, is always one of
\* recording, completed, transcribing, analyzed, failed, and every step
\* leaves it, moves it forward along that order, or sets it to failed.
C18_StatusForwardOnly ==
    [][/\ \A i \in 1..Len(calls') :
            InLifecycle(calls'[i].status) \/ calls'[i].status = CS_failed
       /\ \A i \in 1..Len(call_records') :
            \/ InLifecycle(call_records'[i].status)
            \/ call_records'[i].status = CS_failed
       /\ \A i \in 1..Len(calls), j \in 1..Len(calls') :
            calls[i].id = calls'[j].id
                => ForwardOrFailed(calls[i].status, calls'[j].status)
       /\ \A i \in 1..Len(call_records), j \in 1..Len(call_records') :
            call_records[i].id = call_records'[j].id
                => ForwardOrFailed(call_records[i].status,
                                   call_records'[j].status)
      ]_vars

-----------------------------------------------------------------------------
(* Properties of the startup *)

C16_StartupAlwaysServes ==
    /\ [](boot_pc = "serving" => (db_connected <=> conn_test = "passed"))
    /\ [](boot_pc \in {"reconcile", "create"} => db_connected)
    /\ []((last_run.ran /\ ~last_run.ok /\ boot_pc = "create")
            => "reconcile" \in boot_log)
    /\ (boot_pc # "serving") ~> (boot_pc = "serving")

\* the server serves, connected, after both ensure_users_table and the table
\* creation raised
C16_Witness ==
    /\ boot_pc = "serving" /\ db_connected
    /\ boot_log = {"reconcile", "create"}

-----------------------------------------------------------------------------
(* Properties of login and of the role rule *)

\* the index of the row whose e-mail equals raw after trimming and
\* lower-casing both, 0 if there is none
RowOf(tbl, raw) ==
    IF EmailTaken(tbl, raw)
    THEN CHOOSE i \in 1..Len(tbl) : Lower(Strip(tbl[i].email)) = Lower(Strip(raw))
    ELSE 0

\* C12: of two answered logins, one for an e-mail that no user has and one for
\* the e-mail of a user with a password that is not that user's, both get the
\* same status and the same detail.
C12_FailedLoginUniform ==
    \A p, q \in Procs :
        (/\ pc[p] = "done" /\ req[p].op = "login"
         /\ pc[q] = "done" /\ req[q].op = "login"
         /\ RowOf(users, req[p].email) = 0
         /\ RowOf(users, req[q].email) # 0
         /\ users[RowOf(users, req[q].email)].hashed_password.of # req[q].password)
        => (out[p].status = out[q].status /\ out[p].detail = out[q].detail)

\* C13: a login for an e-mail that no user has, or with a password that is
\* not the user's, is answered 401 "Invalid email or password" without a
\* token; one with the right password for a deactivated user is answered 401
\* "Account is deactivated" without a token; only the login of an existing,
\* active user with the right password goes on and is answered 200 with a
\* token for that user.
C13_LoginOutcomes ==
    [][\A p \in Procs :
        /\ (pc[p] = "idle" /\ pc'[p] # "idle" /\ req'[p].op = "login") =>
            LET i == RowOf(users, req'[p].email)
            IN  IF i = 0 \/ users[i].hashed_password.of # req'[p].password
                THEN /\ pc'[p] = "done"
                     /\ out'[p].status = 401 /\ out'[p].detail = D_invalid
                     /\ out'[p].token = NoToken
                ELSE IF ~users[i].is_active
                THEN /\ pc'[p] = "done"
                     /\ out'[p].status = 401 /\ out'[p].detail = D_deactivated
                     /\ out'[p].token = NoToken
                ELSE pc'[p] = "login_commit" /\ loc'[p].existing = i
        /\ (pc[p] = "login_commit" /\ pc'[p] = "done") =>
            /\ out'[p].status = 200
            /\ out'[p].token.sub = users[loc[p].existing].id
            /\ out'[p].token.sig = JWT_SECRET
      ]_vars

\* the rule in the words of the specification
RefRole(email_norm, requested) ==
    IF email_norm \in admin_emails THEN S_admin
    ELSE IF Lower(requested) = S_employee THEN S_employee
    ELSE IF Lower(requested) = S_admin THEN S_admin
    ELSE S_employee

\* C14: the role of the user that signup or google-sync builds is the rule's
\* for the request's normalized e-mail and requested role, the same for both
\* endpoints, and it is the role stored and returned when the user is
\* inserted or when the existing user is updated as it was loaded.
C14_RoleRule ==
    [][\A p \in Procs :
        /\ (pc[p] = "idle" /\ pc'[p] \in {"signup_commit", "sync_commit"}) =>
            loc'[p].row.role =
                RefRole(Lower(Strip(req'[p].email)), req'[p].role)
        /\ (/\ pc[p] \in {"signup_commit", "sync_commit"}
            /\ pc'[p] = "done" /\ out'[p].status = 200
            /\ \/ loc[p].existing = 0
               \/ users[loc[p].existing] = loc[p].loaded) =>
            LET role == RefRole(Lower(Strip(req[p].email)), req[p].role)
            IN  /\ out'[p].user.role = role
                /\ \E i \in 1..Len(users') :
                    users'[i].id = out'[p].user.id /\ users'[i].role = role
      ]_vars

\* a signup that asked for role "boss" with an allowlisted address, and a
\* google-sync that asked for "Admin" with another address, both made admins
C14_Witness ==
    \E p, q \in Procs :
        /\ pc[p] = "done" /\ req[p].op = "signup" /\ out[p].status = 200
        /\ req[p].email = <<" ", "A", "@", "X">>
        /\ req[p].role = <<"b", "o", "s", "s">>
        /\ out[p].user.role = S_admin
        /\ pc[q] = "done" /\ req[q].op = "google-sync" /\ out[q].status = 200
        /\ req[q].email = <<"b", "@", "x">>
        /\ req[q].role = <<"A", "d", "m", "i", "n">>
        /\ out[q].user.role = S_admin

-----------------------------------------------------------------------------
(* More properties of the chat gateway *)

\* the latest response was a 200 whose first completion text is empty or
\* missing
EmptyCompletion ==
    ~resp.exc /\ resp.status = 200 /\ ~Truthy(resp.completion)

\* C24: a 200 response whose first completion text is empty or missing does
\* not end the iteration and is not returned as the reply: a call whose latest
\* response was such a one ends only when the candidates are used up, with the
\* apology.
C24_EmptyTextIsNoSuccess ==
    (chat_pc = "done" /\ EmptyCompletion) =>
        /\ reply # <<EmptyText>>
        /\ reply # <<>> /\ reply[1] = APOLOGY

\* the attempts that did not yield a completion
FailedAttempts == {i \in 1..Len(attempts) : attempts[i].outcome # "success"}

\* C25: the number of error entries a request has added to _AI_ERRORS equals
\* its number of failed attempts.
C25_OneErrorPerFailedAttempt == nErrors = Cardinality(FailedAttempts)

\* the largest number of requests one call can issue
RequestBound == Len(key_sequence) * Len(API_VERSIONS) * Len(model_candidates)

\* C29: one chat call issues at most (credentials) x (API versions) x (model
\* candidates) requests, which is at most 2 x 2 x 7, no combination of loop
\* positions is requested twice, and the call is over once that many requests
\* were issued.
C29_BoundedRequests ==
    /\ Len(attempts) <= RequestBound
    /\ Len(key_sequence) <= 2
    /\ Len(API_VERSIONS) = 2
    /\ Len(model_candidates) <= 1 + Len(FALLBACK_MODELS)
    /\ 1 + Len(FALLBACK_MODELS) = 7
    /\ \A i, j \in 1..Len(attempts) : i < j => attempts[i].at # attempts[j].at
    /\ chat_pc = "loop" => Len(attempts) < RequestBound

\* two credentials, GEMINI_MODEL naming a model of the fixed list, and every
\* combination requested
C29_Witness ==
    /\ chat_pc = "done"
    /\ Len(key_sequence) = 2
    /\ GEMINI_MODEL = "gemini-2.0-flash"
    /\ Len(model_candidates) = 1 + Len(Fallbacks)
    /\ Len(attempts) = RequestBound
    /\ \E i, j \in 1..Len(attempts) :
        i # j /\ Triple(attempts[i]) = Triple(attempts[j])

\* C26: with chat requests interleaving at their provider calls, each buffer
\* holds at most 50 entries, no entry is lost while the buffer is below
\* capacity, and the entries stand in the order of the appends, newest first.
C26_ConcurrentAppendsSafe ==
    /\ Len(AI_ERRORS) <= AI_MAXLEN /\ Len(AI_EVENTS) <= AI_MAXLEN
    /\ nErrors <= AI_MAXLEN => Len(AI_ERRORS) = nErrors
    /\ nEvents <= AI_MAXLEN => Len(AI_EVENTS) = nEvents
    /\ \A i \in 1..Len(AI_ERRORS) : AI_ERRORS[i].seq = nErrors - i + 1
    /\ \A i \in 1..Len(AI_EVENTS) : AI_EVENTS[i].seq = nEvents - i + 1

\* two requests in flight whose error entries alternate in a buffer that is
\* full and has evicted entries
C26_Witness ==
    /\ \A p \in Procs : chats[p].pc = "await"
    /\ nErrors > AI_MAXLEN /\ Len(AI_ERRORS) = AI_MAXLEN
    /\ AI_ERRORS[1].source = "client"
    /\ AI_ERRORS[2].source = "server"
    /\ AI_ERRORS[3].source = "client"

-----------------------------------------------------------------------------
(* More properties of the transcription and summary pipeline *)

\* C27: when the update of the call fails after the insert of the derived
\* row, the transcript or summary row stays stored, the call's row (its
\* transcript_id, summary_id and status) is as before, and the request is
\* answered with an error.
C27_OrphanNotRolledBack ==
    [][\A p \in Procs :
        (job[p].pc \in {"transcribing", "summarizing"} /\ job'[p].pc = "done"
         /\ job'[p].fault = "update") =>
            /\ calls' = calls
            /\ job_out'[p].status = 500
            /\ job[p].pc = "transcribing" =>
                /\ Len(transcripts') = Len(transcripts) + 1
                /\ transcripts'[Len(transcripts')].call_id = job[p].call_id
                /\ SubSeq(transcripts', 1, Len(transcripts)) = transcripts
            /\ job[p].pc = "summarizing" =>
                /\ Len(ai_summaries') = Len(ai_summaries) + 1
                /\ ai_summaries'[Len(ai_summaries')].call_id = job[p].call_id
                /\ SubSeq(ai_summaries', 1, Len(ai_summaries)) = ai_summaries
    ]_vars

\* a summary request whose update failed: its summary row is stored and the
\* call still has no summary_id and the status of the transcription
C27_Witness ==
    \E p \in Procs :
        /\ job[p].pc = "done" /\ job[p].op = "summary" /\ job[p].fault = "update"
        /\ job_out[p].status = 500
        /\ \E i \in 1..Len(calls) :
            /\ calls[i].id = job[p].call_id
            /\ calls[i].summary_id = NoId
            /\ calls[i].status = ST_transcribed
            /\ \E s \in 1..Len(ai_summaries) : ai_summaries[s].call_id = calls[i].id

\* C30: the customers table holds at most one row for each pair of phone
\* number and employee.
C30_OneCustomerPerPair ==
    \A i, j \in 1..Len(customers) :
        (/\ customers[i].phone_number = customers[j].phone_number
         /\ customers[i].employee_id = customers[j].employee_id) => i = j

-----------------------------------------------------------------------------
(* More properties of google-sync and of the sessions *)

\* the rows of tbl whose e-mail, trimmed and lower-cased, is email_norm
RowsOf(tbl, email_norm) ==
    {i \in 1..Len(tbl) : Lower(Strip(tbl[i].email)) = email_norm}

\* C22: a google-sync that finds no user with the normalized e-mail, and none
\* has appeared when it commits, adds exactly one row, with the placeholder
\* hash and the role of the role rule; one that finds a user, whose row is
\* still as it was read, adds no row, keeps the row's id, e-mail and hash and
\* sets its name, company, role (the rule applied to the request) and active
\* flag (true); both answer with a token whose subject is that user's id.
C22_SyncResolvesOrProvisions ==
    [][\A p \in Procs :
        (pc[p] = "sync_commit" /\ pc'[p] = "done") =>
            LET i == loc[p].existing
                email_norm == Lower(Strip(req[p].email))
                n == Len(users)
            IN  /\ (i = 0 /\ RowsOf(users, email_norm) = {}) =>
                    /\ Len(users') = n + 1
                    /\ SubSeq(users', 1, n) = users
                    /\ RowsOf(users', email_norm) = {n + 1}
                    /\ users'[n + 1].email = email_norm
                    /\ users'[n + 1].hashed_password = GetPasswordHash(FirebaseUid)
                    /\ users'[n + 1].role = RefRole(email_norm, req[p].role)
                    /\ users'[n + 1].is_active
                    /\ \A j \in 1..n : users[j].id # users'[n + 1].id
                    /\ out'[p].status = 200
                    /\ out'[p].token.sub = users'[n + 1].id
                    /\ out'[p].token.sig = JWT_SECRET
                /\ (i # 0 /\ users[i] = loc[p].loaded) =>
                    /\ Len(users') = n
                    /\ \A j \in 1..n : j # i => users'[j] = users[j]
                    /\ users'[i].id = users[i].id
                    /\ users'[i].email = users[i].email
                    /\ users'[i].hashed_password = users[i].hashed_password
                    /\ users'[i].name = Strip(RawName)
                    /\ users'[i].company_id = NormalizeCompany(RawCompany)
                    /\ users'[i].role = RefRole(email_norm, req[p].role)
                    /\ users'[i].is_active
                    /\ out'[p].status = 200
                    /\ out'[p].token.sub = users[i].id
                    /\ out'[p].token.sig = JWT_SECRET
    ]_vars

\* the deactivated account of the initial table was synced: same id, new name
\* and company, active again, and the token is for it
C22_Witness ==
    \E p \in Procs :
        /\ pc[p] = "done" /\ req[p].op = "google-sync" /\ out[p].status = 200
        /\ Len(initial_users) = 2 /\ ~initial_users[2].is_active
        /\ Len(users) = 2
        /\ users[2].id = initial_users[2].id
        /\ users[2].is_active
        /\ users[2].name # initial_users[2].name
        /\ users[2].company_id # initial_users[2].company_id
        /\ out[p].token.sub = users[2].id

\* the rows of tbl with this id
UsersWithId(tbl, id) == {i \in 1..Len(tbl) : tbl[i].id = id}

\* a protected request has just been answered
SessAnswered(endpoint) == session.endpoint # endpoint /\ session'.endpoint = endpoint

\* C28: get_current_user lets a request through exactly when the bearer token
\* is signed with the server's secret and not expired for verify_token,
\* carries a subject, and a row of users has that id, and then as that user;
\* in every other case it answers 401; whether the row is active makes no
\* difference.
C28_CurrentUserIgnoresActive ==
    [][SessAnswered("me") =>
        LET verifies == token.sig = JWT_SECRET /\ ~(token.exp < now)
            known == token.sub # NoSub /\ UsersWithId(users, token.sub) # {}
        IN  /\ (verifies /\ known) =>
                (session'.status = 200 /\ session'.user = token.sub)
            /\ ~(verifies /\ known) =>
                (session'.status = 401 /\ session'.detail = D_credentials
                 /\ session'.user = 0)
    ]_vars

\* the account was deactivated after its token was issued, and GET /auth/me
\* still answers for it
C28_Witness ==
    /\ session.endpoint = "me" /\ session.status = 200
    /\ "deactivate" \in since
    /\ \E i \in UsersWithId(users, token.sub) : ~users[i].is_active

====
